---- MODULE Spec2Model ----
(***************************************************************************)
(* Generation Pipeline Controller (backend/app/core/orchestrator.py) of    *)
(* Cursor-Writing, with the draft store and the session API around it.     *)
(*                                                                         *)
(* One Orchestrator instance serves one project.  Its operations are       *)
(* coroutines: a step of the model is the code that runs between two       *)
(* suspension points (an awaited progress notification, an awaited agent   *)
(* call, an awaited file read).  pc names the await the operation in       *)
(* flight is suspended in; "idle" means no operation is in flight.         *)
(*                                                                         *)
(* The module also holds the read-through cache (backend/app/core/cache.py):*)
(* the LRUCache with its clock (SpecCache) and the cached and               *)
(* invalidate_cache wrappers around one stored item (SpecRead).  SpecEnv is *)
(* the Controller with cancel requests and callback failures at any await. *)
(***************************************************************************)
EXTENDS Naturals, Integers, Sequences, FiniteSets, TLC

(* ---------------- program constants ---------------- *)

QUALITY_THRESHOLD == 70        \* 0.7, scores are kept in hundredths

MAX_REWRITE_ITERATIONS == 2

max_iterations == 5

(* ---------------- bounds of the model ---------------- *)

\* highest draft version number the model lets the store reach
MaxVersion == 6

\* highest value of the revision counter the model lets a revise reach
IterBound == 6

\* items of one kind one extraction can return, and the number of items of
\* one kind the model lets the canon store reach
MaxExtract == 1

MaxCanon == 1

(* ---------------- values ---------------- *)

\* members of the SessionStatus enum, by member name
SessionStatus ==
  {"IDLE", "BRIEFING", "WRITING", "REVIEWING", "EDITING", "WAITING",
   "COMPLETED", "ERROR"}

\* the plain str "idle" that cancel_session assigns (not an enum member)
RawIdle == "str:idle"

\* SessionStatus.X.value; a plain str has no .value (AttributeError),
\* shown here as "<AttributeError>" and guarded by HasValue at every use
HasValue(s) == s \in SessionStatus

Value(s) ==
  CASE s = "IDLE" -> "idle"
    [] s = "BRIEFING" -> "briefing"
    [] s = "WRITING" -> "writing"
    [] s = "REVIEWING" -> "reviewing"
    [] s = "EDITING" -> "editing"
    [] s = "WAITING" -> "waiting"
    [] s = "COMPLETED" -> "completed"
    [] s = "ERROR" -> "error"
    [] OTHER -> "<AttributeError>"

\* the str a status compares equal to (SessionStatus is a str Enum)
StrOf(s) == IF s = RawIdle THEN "idle" ELSE Value(s)

\* entry of the review history for a Reviewer call that returned success=false
ReviewFailed == 0 - 1

\* the response of the LLM carries no <score> tag, or one float() rejects
NoScoreTag == 0 - 1000

Min(a, b) == IF a < b THEN a ELSE b

Max(a, b) == IF a > b THEN a ELSE b

\* the parsed score used as it is, without max(0.0, min(1.0, ...))
ReviewScore_unclamped(raw, nconf, nmajor) ==
  LET parsed == IF raw > 100 THEN raw \div 100 ELSE raw
      base == IF raw = NoScoreTag THEN 80 ELSE parsed
      conf == IF nconf > 0 THEN Max(base - Min(nconf * 5, 20), 50) ELSE base
  IN  IF nmajor > 0 THEN Max(conf - Min(nmajor * 5, 25), 55) ELSE conf

\* ReviewerAgent.run, lines 258-317, in hundredths: the default 0.8, a score
\* above 1 read as a percentage, the clamp to [0, 1], then the penalty for
\* nconf conflicts (floor 0.5) and for nmajor major programmatic issues
\* (floor 0.55)
ReviewScore(raw, nconf, nmajor) ==
  LET parsed == IF raw > 100 THEN raw \div 100 ELSE raw
      base == IF raw = NoScoreTag THEN 80 ELSE Max(0, Min(100, parsed))
      conf == IF nconf > 0 THEN Max(base - Min(nconf * 5, 20), 50) ELSE base
  IN  IF nmajor > 0 THEN Max(conf - Min(nmajor * 5, 25), 55) ELSE conf

\* what the Reviewer gets to score: <<score text, conflicts, major issues>>,
\* the score text in hundredths ("0.3", "90" read as 90%, "150", none)
ReviewInputs ==
  {<<30, 0, 0>>, <<70, 0, 0>>, <<9000, 0, 0>>, <<15000, 2, 0>>,
   <<NoScoreTag, 2, 0>>, <<95, 0, 1>>}

\* overall_score values the Reviewer returns, in hundredths
Scores == {ReviewScore(i[1], i[2], i[3]) : i \in ReviewInputs}

\* the one work unit of the model, and the values of current_chapter
Chapter == "ch1"

NoChapter == "None"

EmptyChapter == ""

NoResult == [kind |-> "none", status |-> "-"]

\* saved_counts = {"facts": 0, "timeline": 0, "states": 0}
ZeroCounts == [facts |-> 0, timeline |-> 0, states |-> 0]

\* the value of a local that holds None: no score, no version
NoScore == 0 - 1

NoVersion == 0

NoReturned ==
  [brief |-> FALSE, version |-> NoVersion, quality_score |-> NoScore,
   rewrite_count |-> 0]

VARIABLES
  \* Orchestrator fields
  status, current_chapter, iteration, rewrite_iteration,
  \* the operation in flight: its name, the await it is suspended in, its locals
  op, pc, rewrite_i, review_result, edit_result, draft_read, errCtx,
  \* what the last finished operation returned
  result,
  \* draft store of the work unit, canon store of the project
  brief, latest, final, summary, canon,
  \* _finalize: what extract_facts returned, the saved_counts dict, and the
  \* canon store as it was when the call began
  extracted, saved_counts, canonBase,
  \* start_session: overall_score of review_result's review, version of
  \* edit_result, and the fields of the dict it returned
  review_score, edit_version, returned,
  \* start_session: the review whose summary the last Writer call was given
  \* as review_feedback, by its place among the reviews of the call
  review_feedback,
  \* status carried by the most recent progress notification
  lastNote,
  \* history of the operation in flight (or of the last one)
  writerCalls, reviewerCalls, editorCalls, reviews, trace, raised, entryStatus,
  failedAgent,
  \* core/cache.py: the clock (time.time()), the fields _cache and
  \* _access_order of the LRUCache, and the operation just performed on it
  now, cache, access_order, lastOp,
  \* per stored key the entry as set wrote it, and the stored keys from the
  \* least to the most recently read or written
  stored, useOrder,
  \* the persisted version of the item "f:1"; a reader wrapped by cached
  \* (where it is suspended, the result of func, what it returned last) and
  \* a writer wrapped by invalidate_cache (where it is suspended)
  disk, rpc, rval, rret, wpc,
  \* the version of the last write whose wrapper has returned, that version
  \* as it was when the read in flight (or the last read) began, and the
  \* clock at the persistence reads of get_facts since the last write
  completed, rmin, readTimes,
  \* core/budgeter.py: the last call of allocate_context or of
  \* truncate_to_budget, with its arguments and what it returned
  budgetCall,
  \* core/context.py: the last call of rank_by_similarity or of
  \* select_for_writing, with its arguments and what it returned
  selCall,
  \* llm/client.py: where the chat call in flight is suspended, the fields
  \* providers, total_requests and total_tokens of the LLMClient, the locals
  \* provider_name, retry and attempt of chat, and what the last call returned
  \* or raised
  cpc, providers, provider_name, retry, attempt, chatResult, total_requests,
  tokens_total,
  \* the provider calls and the failed ones of the chat call in flight (or of
  \* the last one), the seconds it has slept, and the chat calls begun
  providerCalls, failures, sleeps, chats,
  \* what the confirm that completed just before the one in flight (or the
  \* last one) extracted, and the canon store as it was when that call began
  previous,
  \* the final text and the summary of the work unit as they were when the
  \* confirm in flight (or the last one) began
  atBegin,
  \* two start_session calls on the one Orchestrator: of each call where it
  \* is suspended, its chapter argument, its local rewrite_i, the chapter
  \* its last notification carried, whether one of its notifications
  \* carried another chapter than its own, and what it returned
  calls,
  \* api/canon.py and storage/canon.py: the lines of facts.jsonl,
  \* timeline.jsonl and states.jsonl of the project, where the extract
  \* request in flight is suspended, its chapter, what extract_facts returned
  \* and how it ended, the files as they were when it began, and the
  \* extract request that completed just before it
  canon_files, xpc, xreq, xbefore, xprev,
  \* agents/reviewer.py: the last scoring of a response, with the score
  \* text, the conflicts and major issues found, and the scores computed
  reviewCall

ctrlVars == <<status, current_chapter, iteration, rewrite_iteration>>

callVars == <<op, pc, rewrite_i, review_result, edit_result, draft_read, errCtx, result>>

storeVars == <<brief, latest, final, summary, canon>>

finVars == <<extracted, saved_counts, canonBase>>

retVars == <<review_score, edit_version, returned, review_feedback>>

histVars ==
  <<writerCalls, reviewerCalls, editorCalls, reviews, trace, raised, entryStatus,
    failedAgent>>

lruVars == <<now, cache, access_order, lastOp, stored, useOrder>>

\* the state of the utility components, which no Controller operation touches
readVars == <<disk, rpc, rval, rret, wpc, completed, rmin, readTimes>>

budgetVars == <<budgetCall>>

\* the state of the components added below the cache
selVars == <<selCall>>

chatVars ==
  <<cpc, providers, provider_name, retry, attempt, chatResult, total_requests,
    tokens_total, providerCalls, failures, sleeps, chats>>

confirmVars == <<previous, atBegin>>

raceVars == <<calls>>

extractVars == <<canon_files, xpc, xreq, xbefore, xprev>>

reviewVars == <<reviewCall>>

moreVars == <<confirmVars, raceVars, extractVars, reviewVars>>

extraVars == <<budgetVars, selVars, chatVars, moreVars>>

utilVars == <<lruVars, readVars, extraVars>>

\* the state of the Controller, its stores and its history
pipelineVars ==
  <<ctrlVars, callVars, storeVars, finVars, retVars, lastNote, histVars>>

vars == <<pipelineVars, utilVars>>

(* ---------------- read-through cache: values and operators ---------------- *)

\* capacity of the LRUCache of the model (the constructor's maxsize)
maxsize == 2

\* last clock value of the model; one tick stands for 60 seconds
MaxTime == 3

\* cache keys as _make_key builds them, ":".join of category, project and
\* arguments, written as sequences of characters: "f:1", "f:10", "d:1"
CacheKeys == {<<"f", ":", "1">>, <<"f", ":", "1", "0">>, <<"d", ":", "1">>}

\* the prefixes invalidate_category builds: "f:1", "d:1"
Prefixes == {<<"f", ":", "1">>, <<"d", ":", "1">>}

\* StorageCache._make_key without further arguments:
\* ":".join([category, project_id])
make_key(category, project_id) == category \o <<":">> \o project_id

\* the categories and the project identifiers of the keys above
KeyCategories == {<<"f">>, <<"d">>}

KeyProjects == {<<"1">>, <<"1", "0">>}

\* cached values: the versions of an item (never None)
CacheValues == {1, 2}

\* TTL_CONFIG in ticks: draft 60 s, fact 120 s
TTLs == {1, 2}

\* what get returns for a key that is absent or expired
None == 0 - 1

NoOp == [op |-> "none", key |-> <<>>, ret |-> None]

\* str.startswith
StartsWith(k, prefix) ==
  /\ Len(prefix) <= Len(k)
  /\ SubSeq(k, 1, Len(prefix)) = prefix

\* list.remove(k) on a list that holds k at most once
ListRemove(order, k) == SelectSeq(order, LAMBDA x : x /= k)

\* dict without the key k
DictDel(c, k) == [x \in DOMAIN c \ {k} |-> c[x]]

\* dict with c[k] = e
DictPut(c, k, e) == [x \in DOMAIN c \cup {k} |-> IF x = k THEN e ELSE c[x]]

\* expiry at the boundary: time.time() - timestamp >= ttl
is_expired_early(e, t) == t - e.timestamp >= e.ttl

\* CacheEntry.is_expired: time.time() - self.timestamp > self.ttl
is_expired(e, t) == t - e.timestamp > e.ttl

\* the key left where it is when it is already in the list
update_access_fifo(order, k) ==
  IF \E i \in DOMAIN order : order[i] = k THEN order ELSE Append(order, k)

\* LRUCache._update_access: the key moves to the end of the list
update_access(order, k) == Append(ListRemove(order, k), k)

\* the entry deleted and the key left in _access_order
lru_delete_entry_only(c, order, k) ==
  IF k \in DOMAIN c
    THEN [cache |-> DictDel(c, k), order |-> order]
    ELSE [cache |-> c, order |-> order]

\* LRUCache.delete, on the pair of _cache and _access_order
lru_delete(c, order, k) ==
  IF k \in DOMAIN c
    THEN [cache |-> DictDel(c, k), order |-> ListRemove(order, k)]
    ELSE [cache |-> c, order |-> order]

\* LRUCache._evict: the head of the list is popped and its entry deleted
evict(c, order) ==
  IF order /= <<>>
    THEN [cache |-> DictDel(c, Head(order)), order |-> Tail(order)]
    ELSE [cache |-> c, order |-> order]

\* LRUCache.get: the value returned
lru_get_ret(c, k, t) ==
  IF k \notin DOMAIN c THEN None
  ELSE IF is_expired(c[k], t) THEN None
  ELSE c[k].value

\* LRUCache.get: _cache and _access_order afterwards
lru_get(c, order, k, t) ==
  IF k \notin DOMAIN c THEN [cache |-> c, order |-> order]
  ELSE IF is_expired(c[k], t) THEN lru_delete(c, order, k)
  ELSE [cache |-> c, order |-> update_access(order, k)]

\* LRUCache.set: _cache and _access_order afterwards
lru_set(c, order, k, v, ttl, t) ==
  LET room == IF Cardinality(DOMAIN c) >= maxsize /\ k \notin DOMAIN c
                THEN evict(c, order)
                ELSE [cache |-> c, order |-> order]
  IN  [cache |-> DictPut(room.cache, k, [value |-> v, timestamp |-> t, ttl |-> ttl]),
       order |-> update_access(room.order, k)]

\* LRUCache.invalidate_prefix: every key that starts with the prefix is deleted
lru_invalidate_prefix(c, order, prefix) ==
  [cache |-> [x \in {k \in DOMAIN c : ~StartsWith(k, prefix)} |-> c[x]],
   order |-> SelectSeq(order, LAMBDA x : ~StartsWith(x, prefix))]

\* LRUCache.__init__: an empty cache at clock 0
InitCache ==
  /\ now = 0
  /\ cache = << >>
  /\ access_order = << >>
  /\ lastOp = NoOp
  /\ stored = << >>
  /\ useOrder = << >>

\* the item "f:1" is stored in version 1; no read or write is in flight
InitRead ==
  /\ disk = 1
  /\ rpc = "idle"
  /\ rval = None
  /\ rret = None
  /\ wpc = "idle"
  /\ completed = 1
  /\ rmin = 1
  /\ readTimes = << >>

(* ---------------- core/budgeter.py: values and operators ---------------- *)

\* most items a candidate list of the context holds
MaxItems == 2

\* most runs a text handed to truncate_to_budget has
MaxRuns == 2

\* A text is a sequence of runs: n characters in a row that are all CJK
\* ideographs (ch = "zh") or all other characters (ch = "en").
Run(c, k) == [ch |-> c, n |-> k]

RECURSIVE TextLen(_)
TextLen(text) ==
  IF text = << >> THEN 0 ELSE Head(text).n + TextLen(Tail(text))

\* len(re.findall(r'[\u4e00-\u9fff]', text)): the CJK ideographs of text
RECURSIVE chinese_chars(_)
chinese_chars(text) ==
  IF text = << >> THEN 0
  ELSE (IF Head(text).ch = "zh" THEN Head(text).n ELSE 0)
       + chinese_chars(Tail(text))

\* text[:k] for k >= 0
RECURSIVE Slice(_, _)
Slice(text, k) ==
  IF text = << >> \/ k <= 0 THEN << >>
  ELSE IF Head(text).n <= k
       THEN <<Head(text)>> \o Slice(Tail(text), k - Head(text).n)
       ELSE <<Run(Head(text).ch, k)>>

\* int(chinese_chars / 1.5 + other_chars / 4): the sum is
\* (8 * chinese_chars + 3 * other_chars) / 12, and int() drops the fraction
estimate_tokens(text) ==
  IF TextLen(text) = 0 THEN 0
  ELSE LET zh == chinese_chars(text)
           other_chars == TextLen(text) - zh
       IN (8 * zh + 3 * other_chars) \div 12

\* BudgetConfig, its ratios in hundredths
DefaultRatios ==
  [system_rules |-> 5, cards |-> 15, canon |-> 10, summaries |-> 20,
   current_draft |-> 30, output_reserve |-> 20]

BudgetConfig(total, cardsRatio) ==
  [total_tokens |-> total,
   ratios |-> [DefaultRatios EXCEPT !.cards = cardsRatio]]

Configs == {BudgetConfig(t, c) : t \in {10, 40, 1000}, c \in {15, 50}}

\* int(total_tokens * ratios.get(category, 0.1))
get_budget(config, category) ==
  LET ratio == IF category \in DOMAIN config.ratios
               THEN config.ratios[category] ELSE 10
  IN (config.total_tokens * ratio) \div 100

\* the text an item is measured by: _serialize_character(char),
\* _serialize_world(world), fact.statement, summary.summary
Serialized(item) == item.text

\* the loop over one candidate list: admits an item while it fits what is
\* left of the group's budget and stops at the first one that does not
RECURSIVE AdmitLoop_overshoot(_, _, _)
AdmitLoop_overshoot(items, used, budget) ==
  IF items = << >> THEN [taken |-> << >>, used |-> used]
  ELSE IF used <= budget
       THEN LET r == AdmitLoop_overshoot(Tail(items),
                       used + estimate_tokens(Serialized(Head(items))),
                       budget)
            IN [taken |-> <<Head(items)>> \o r.taken, used |-> r.used]
       ELSE [taken |-> << >>, used |-> used]

RECURSIVE AdmitLoop(_, _, _)
AdmitLoop(items, used, budget) ==
  IF items = << >> THEN [taken |-> << >>, used |-> used]
  ELSE IF used + estimate_tokens(Serialized(Head(items))) <= budget
       THEN LET r == AdmitLoop(Tail(items),
                       used + estimate_tokens(Serialized(Head(items))),
                       budget)
            IN [taken |-> <<Head(items)>> \o r.taken, used |-> r.used]
       ELSE [taken |-> << >>, used |-> used]

\* the counter of current_tokens a category is charged to
BudgetGroup(category) ==
  CASE category \in {"characters", "world"} -> "cards"
    [] category = "facts" -> "canon"
    [] category = "summaries" -> "summaries"

\* for category in priorities: ...
RECURSIVE AllocLoop(_, _, _, _)
AllocLoop(priorities, st, config, context) ==
  IF priorities = << >> THEN st
  ELSE LET category == Head(priorities)
           next ==
             IF category \in {"characters", "world", "facts", "summaries"}
             THEN LET g == BudgetGroup(category)
                      r == AdmitLoop(context[category], st.current_tokens[g],
                                     get_budget(config, g))
                  IN [allocated |->
                        [st.allocated EXCEPT ![category] = @ \o r.taken],
                      current_tokens |->
                        [st.current_tokens EXCEPT ![g] = r.used]]
             ELSE st
       IN AllocLoop(Tail(priorities), next, config, context)

\* what allocate_context(context, priorities) returns
Allocated(config, context, priorities) ==
  AllocLoop(priorities,
            [allocated |->
               [characters |-> << >>, world |-> << >>,
                style |-> context.style, rules |-> context.rules,
                facts |-> << >>, summaries |-> << >>],
             current_tokens |-> [cards |-> 0, canon |-> 0, summaries |-> 0]],
            config, context).allocated

DefaultPriorities ==
  <<"characters", "style", "rules", "facts", "summaries", "world">>

PriorityLists ==
  {DefaultPriorities,
   <<"world", "summaries", "facts", "characters">>,
   <<"characters", "world", "characters">>,
   <<"facts">>}

\* serialized texts of 2 and of 5 estimated tokens
SmallItem == <<Run("zh", 3)>>

LargeItem == <<Run("zh", 6), Run("en", 4)>>

SeqsUpTo(S, k) == UNION {[1..j -> S] : j \in 0..k}

\* the candidates of a category, each named by its place in the list
Candidates(texts) ==
  {[i \in 1..Len(ts) |-> [name |-> i, text |-> ts[i]]] :
     ts \in SeqsUpTo(texts, MaxItems)}

Contexts ==
  [characters : Candidates({SmallItem, LargeItem}),
   world : Candidates({SmallItem, LargeItem}),
   facts : Candidates({SmallItem}),
   summaries : Candidates({SmallItem}),
   style : {"style"}, rules : {"rules"}]

\* the suffix truncate_to_budget appends: a newline, three dots, an opening
\* parenthesis, five CJK ideographs and a closing parenthesis
TruncationMarker == <<Run("en", 5), Run("zh", 5), Run("en", 1)>>

\* what truncate_to_budget(text, category) returns; target_len is
\* int(len(text) * (budget / tokens) * 0.95)
truncate_to_budget(config, text, category) ==
  LET budget == get_budget(config, category)
      tokens == estimate_tokens(text)
  IN IF tokens <= budget THEN text
     ELSE LET target_len == (TextLen(text) * budget * 95) \div (tokens * 100)
          IN Slice(text, target_len) \o TruncationMarker

RunLens == {6, 300, 600}

\* texts of at most MaxRuns runs, neighbouring runs of different classes
Texts ==
  {t \in SeqsUpTo({Run(c, k) : c \in {"zh", "en"}, k \in RunLens}, MaxRuns) :
     \A i \in 1..(Len(t) - 1) : t[i].ch # t[i + 1].ch}

Categories == {"cards", "canon", "summaries", "dialogue"}

NoCall == [kind |-> "none"]

InitBudget == budgetCall = NoCall

(* ---------------- core/context.py: TextSimilarity ---------------- *)

\* most documents handed to rank_by_similarity
MaxDocs == 3

\* A text, as the tokenizer reads it, is a sequence of segments: a maximal run
\* of CJK ideographs (kind "zh"), a maximal run of ASCII letters (kind "en"),
\* or a run of any other characters (kind "sep"). A character is a string, an
\* ideograph being named by its reading; a token is a sequence of characters.
Seg(k, cs) == [kind |-> k, chars |-> cs]

\* a part of STOPWORDS: two one-ideograph words, a two-ideograph word, and
\* two English words
STOPWORDS == {<<"de">>, <<"le">>, <<"yi", "ge">>, <<"t", "h", "e">>, <<"a">>}

\* str.lower() on the letters of the model
lower(c) ==
  CASE c = "T" -> "t"
    [] c = "S" -> "s"
    [] OTHER -> c

\* for i in range(len(segment)): the bigram at i when there is one, then the
\* ideograph at i
RECURSIVE Bigrams(_, _)
Bigrams(segment, i) ==
  IF i > Len(segment) THEN << >>
  ELSE (IF i + 1 <= Len(segment)
        THEN <<SubSeq(segment, i, i + 1)>> ELSE << >>)
       \o <<SubSeq(segment, i, i)>>
       \o Bigrams(segment, i + 1)

RECURSIVE ChineseTokens(_)
ChineseTokens(text) ==
  IF text = << >> THEN << >>
  ELSE (IF Head(text).kind = "zh" THEN Bigrams(Head(text).chars, 1)
        ELSE << >>)
       \o ChineseTokens(Tail(text))

\* re.findall(r'[a-zA-Z]+', text.lower())
RECURSIVE english_words(_)
english_words(text) ==
  IF text = << >> THEN << >>
  ELSE (IF Head(text).kind = "en"
        THEN <<[i \in 1..Len(Head(text).chars) |-> lower(Head(text).chars[i])]>>
        ELSE << >>)
       \o english_words(Tail(text))

\* [t for t in tokens if t not in STOPWORDS and len(t) > 1]
RECURSIVE FilterTokens(_)
FilterTokens(tokens) ==
  IF tokens = << >> THEN << >>
  ELSE (IF Head(tokens) \notin STOPWORDS /\ Len(Head(tokens)) > 1
        THEN <<Head(tokens)>> ELSE << >>)
       \o FilterTokens(Tail(tokens))

tokenize(text) ==
  IF text = << >> THEN << >>
  ELSE FilterTokens(ChineseTokens(text) \o english_words(text))

\* A score is a fraction n / d with d > 0.
Frac(a, b) == [n |-> a, d |-> b]

Zero == Frac(0, 100)

FracLess(x, y) == x.n * y.d < y.n * x.d

FracEq(x, y) == x.n * y.d = y.n * x.d

\* A document is a pair (item, text) together with cos, the cosine in
\* hundredths of its TF-IDF vector with the query's when both texts have
\* tokens and share one (1..100; the logarithms and square roots of the
\* weights are not computed here).
Doc(i, t, c) == [item |-> i, text |-> t, cos |-> c]

\* compute_tfidf of both token lists and cosine_similarity of the vectors:
\* 0.0 when a vector is empty, 0.0 when no word is in both (the dot
\* product is 0), the cosine otherwise
cosine_similarity(query_tokens, doc) ==
  LET doc_tokens == tokenize(doc.text)
      Words(ts) == {ts[i] : i \in 1..Len(ts)}
  IN IF query_tokens = << >> \/ doc_tokens = << >> THEN Zero
     ELSE IF Words(query_tokens) \cap Words(doc_tokens) = {} THEN Zero
     ELSE Frac(doc.cos, 100)

ScoredItem(i, s, t) == [item |-> i, score |-> s, text |-> t]

\* list.sort(key=lambda x: x.score, reverse=True) by insertion: an element
\* goes behind every element whose score is not smaller
RECURSIVE Insert_before_equal(_, _)
Insert_before_equal(sorted, x) ==
  IF sorted = << >> THEN <<x>>
  ELSE IF FracLess(x.score, Head(sorted).score)
       THEN <<Head(sorted)>> \o Insert_before_equal(Tail(sorted), x)
       ELSE <<x>> \o sorted

RECURSIVE Insert(_, _)
Insert(sorted, x) ==
  IF sorted = << >> THEN <<x>>
  ELSE IF FracLess(Head(sorted).score, x.score)
       THEN <<x>> \o sorted
       ELSE <<Head(sorted)>> \o Insert(Tail(sorted), x)

RECURSIVE SortDesc(_, _)
SortDesc(results, sorted) ==
  IF results = << >> THEN sorted
  ELSE SortDesc(Tail(results), Insert(sorted, Head(results)))

\* seq[:k] for k >= 0
Take_all(seq, k) == seq

Take(seq, k) == SubSeq(seq, 1, IF k < Len(seq) THEN k ELSE Len(seq))

\* what rank_by_similarity(query, documents, top_k) returns
Ranked(query, documents, top_k) ==
  IF query = << >> \/ documents = << >>
  THEN LET head == Take(documents, top_k)
       IN [i \in 1..Len(head) |-> ScoredItem(head[i].item, Zero, head[i].text)]
  ELSE LET query_tokens == tokenize(query)
           results ==
             [i \in 1..Len(documents) |->
                ScoredItem(documents[i].item,
                           cosine_similarity(query_tokens, documents[i]),
                           documents[i].text)]
       IN Take(SortDesc(results, << >>), top_k)

\* [item.item for item in entries]
ItemsOf(entries) == [i \in 1..Len(entries) |-> entries[i].item]

\* the texts of the model: "", a blank, one made of stop words and one-letter
\* words only, and texts about a swordsman, a sword and the sea
EmptyText == << >>

BlankText == <<Seg("sep", <<" ">>)>>

StopText ==
  <<Seg("zh", <<"de">>), Seg("sep", <<" ">>), Seg("en", <<"T", "h", "e">>),
    Seg("sep", <<" ">>), Seg("en", <<"a">>)>>

GoalText ==
  <<Seg("zh", <<"jian", "ke">>), Seg("sep", <<" ">>),
    Seg("en", <<"S", "w", "o", "r", "d">>)>>

NearText == <<Seg("zh", <<"jian", "ke", "de">>)>>

SwordText == <<Seg("en", <<"s", "w", "o", "r", "d">>)>>

SeaText == <<Seg("en", <<"s", "e", "a">>)>>

Goals == {EmptyText, BlankText, StopText, GoalText}

\* documents by text and cosine; an item is named by its place in the list
DocKinds ==
  {<<SeaText, 1>>, <<StopText, 1>>, <<NearText, 4>>, <<NearText, 50>>,
   <<SwordText, 50>>}

Documents ==
  {[i \in 1..Len(ks) |-> Doc(i, ks[i][1], ks[i][2])] :
     ks \in SeqsUpTo(DocKinds, MaxDocs)}

TopKs == {1, 2, 10}

(* ---------------- core/context.py: ContextSelector ---------------- *)

\* most character cards and most world cards of a project
MaxCards == 2

\* most prior chapters of a project
MaxChapters == 6

\* most facts of a project
MaxFacts == 2

\* BudgetConfig.total_tokens of the global budgeter
total_tokens == 128000

\* get_budgeter(): TokenBudgeter() with the default BudgetConfig
DefaultConfig == BudgetConfig(total_tokens, DefaultRatios.cards)

\* A card, a fact or a summary of the project: its name (for a summary its
\* chapter), the text it is measured by, and the text and cosine it is ranked
\* by; a fact has its importance as well.
Contains(seq, x) == \E i \in 1..Len(seq) : seq[i] = x

\* [(card, text) for card in cards]
DocsOf(cards) ==
  [i \in 1..Len(cards) |-> Doc(cards[i], cards[i].words, cards[i].cos)]

\* [item.item for item in ranked if item.score > hundredths / 100]
RECURSIVE Above(_, _)
Above(ranked, hundredths) ==
  IF ranked = << >> THEN << >>
  ELSE (IF FracLess(Frac(hundredths, 100), Head(ranked).score)
        THEN <<Head(ranked).item>> ELSE << >>)
       \o Above(Tail(ranked), hundredths)

\* for card in char_cards: if card.name in characters and card not in
\* context["characters"]: context["characters"].append(card)
RECURSIVE KeepRequested(_, _, _)
KeepRequested(char_cards, characters, selected) ==
  IF char_cards = << >> THEN selected
  ELSE LET card == Head(char_cards)
       IN KeepRequested(Tail(char_cards), characters,
            IF Contains(characters, card.name) /\ ~Contains(selected, card)
            THEN Append(selected, card) ELSE selected)

\* 1. the characters of the context
SelectCharacters(chapter_goal, characters, char_cards) ==
  IF char_cards # << >> /\ chapter_goal # << >>
  THEN LET ranked_chars == Ranked(chapter_goal, DocsOf(char_cards), 10)
           relevant == Above(ranked_chars, 5)
       IN IF characters # << >>
          THEN KeepRequested(char_cards, characters, relevant)
          ELSE relevant
  ELSE Take(char_cards, 10)

\* 2. the world cards of the context
SelectWorld(chapter_goal, world_cards) ==
  LET relevant ==
        IF world_cards # << >> /\ chapter_goal # << >>
        THEN Above(Ranked(chapter_goal, DocsOf(world_cards), 5), 3)
        ELSE << >>
  IN IF relevant = << >> /\ world_cards # << >>
     THEN Take(world_cards, 3) ELSE relevant

\* priority_order.get(f.importance, 1)
priority_order(importance) ==
  CASE importance = "critical" -> 0
    [] importance = "minor" -> 2
    [] OTHER -> 1

\* the facts of one priority, the latest first
RECURSIVE LatestFirst(_, _)
LatestFirst(all_facts, p) ==
  IF all_facts = << >> THEN << >>
  ELSE LatestFirst(Tail(all_facts), p)
       \o (IF priority_order(Head(all_facts).importance) = p
           THEN <<Head(all_facts)>> ELSE << >>)

\* sorted(all_facts, key=lambda f: (priority, -all_facts.index(f)))
sorted_facts(all_facts) ==
  LatestFirst(all_facts, 0) \o LatestFirst(all_facts, 1)
    \o LatestFirst(all_facts, 2)

\* for fact in facts: stop at the first one that goes over the budget of
\* fact_token_budget tokens
RECURSIVE FactLoop(_, _, _)
FactLoop(facts, used_tokens, fact_token_budget) ==
  IF facts = << >> THEN [taken |-> << >>, used |-> used_tokens]
  ELSE LET fact_tokens == estimate_tokens(Head(facts).text)
       IN IF used_tokens + fact_tokens > fact_token_budget
          THEN [taken |-> << >>, used |-> used_tokens]
          ELSE LET r == FactLoop(Tail(facts), used_tokens + fact_tokens,
                                 fact_token_budget)
               IN [taken |-> <<Head(facts)>> \o r.taken, used |-> r.used]

\* seq[-k:] for k > 0
LastOf(seq, k) ==
  SubSeq(seq, IF Len(seq) > k THEN Len(seq) - k + 1 ELSE 1, Len(seq))

RECURSIVE Without(_, _)
Without(seq, others) ==
  IF seq = << >> THEN << >>
  ELSE (IF Contains(others, Head(seq)) THEN << >> ELSE <<Head(seq)>>)
       \o Without(Tail(seq), others)

\* 4. the facts of the context
SelectFacts(chapter_goal, all_facts) ==
  IF all_facts = << >> THEN << >>
  ELSE LET first == FactLoop(sorted_facts(all_facts), 0, 2000)
           selected_facts ==
             IF Len(first.taken) < 5 /\ Len(all_facts) > Len(first.taken)
             THEN first.taken
                  \o FactLoop(Without(LastOf(all_facts, 10), first.taken),
                              first.used, 2000).taken
             ELSE first.taken
       IN IF chapter_goal # << >> /\ Len(selected_facts) > 5
          THEN ItemsOf(Ranked(chapter_goal, DocsOf(selected_facts),
                              Len(selected_facts)))
          ELSE selected_facts

\* DraftStorage.get_previous_summaries(project_id, current_chapter, limit):
\* chapters is list_chapters(), in chapter order; a chapter is a record of
\* its name and its summary (None when it has no summary.yaml)
NoSummary == [chapter |-> 0]

index(chapters, chapter_name) ==
  IF \E i \in 1..Len(chapters) : chapters[i].chapter = chapter_name
  THEN (CHOOSE i \in 1..Len(chapters) :
          /\ chapters[i].chapter = chapter_name
          /\ \A j \in 1..(i - 1) : chapters[j].chapter # chapter_name) - 1
  ELSE Len(chapters)

RECURSIVE Summaries(_)
Summaries(chapters) ==
  IF chapters = << >> THEN << >>
  ELSE (IF Head(chapters).summary # NoSummary
        THEN <<Head(chapters).summary>> ELSE << >>)
       \o Summaries(Tail(chapters))

get_previous_summaries(chapters, chapter_name, limit) ==
  LET idx == index(chapters, chapter_name)
      prev_chapters == SubSeq(chapters, 1, idx)
  IN Summaries(LastOf(prev_chapters, limit))

\* next((j for j, s in enumerate(all_summaries)
\*       if s.chapter == item.item.chapter), len(all_summaries))
orig_idx(all_summaries, chapter) ==
  IF \E j \in 1..Len(all_summaries) : all_summaries[j].chapter = chapter
  THEN (CHOOSE j \in 1..Len(all_summaries) :
          /\ all_summaries[j].chapter = chapter
          /\ \A k \in 1..(j - 1) : all_summaries[k].chapter # chapter) - 1
  ELSE Len(all_summaries)

\* item.score * 0.7 + distance_weight * 0.3 with distance_weight
\* 1.0 / (1 + idx * 0.2): the sum is
\* (7 * n * (5 + idx) + 15 * d) / (10 * d * (5 + idx)) for a score n / d
Blend(score, idx) ==
  Frac(7 * score.n * (5 + idx) + 15 * score.d, 10 * score.d * (5 + idx))

\* ranked_summaries once its scores are blended and it is sorted again
RankedSummaries(chapter_goal, all_summaries) ==
  LET ranked == Ranked(chapter_goal, DocsOf(all_summaries), 5)
      blended ==
        [i \in 1..Len(ranked) |->
           [ranked[i] EXCEPT
              !.score = Blend(@, orig_idx(all_summaries,
                                          ranked[i].item.chapter))]]
  IN SortDesc(blended, << >>)

\* 5. the summaries of the context
SelectSummaries(chapter_goal, all_summaries) ==
  IF all_summaries = << >> THEN << >>
  ELSE IF chapter_goal # << >>
       THEN ItemsOf(Take(RankedSummaries(chapter_goal, all_summaries), 5))
       ELSE Take(all_summaries, 5)

\* get_character(project_id, name) for name in char_names, keeping the cards
\* that exist
RECURSIVE get_cards(_, _)
get_cards(cards, names) ==
  IF names = << >> THEN << >>
  ELSE (IF \E c \in 1..Len(cards) : cards[c].name = Head(names)
        THEN <<cards[CHOOSE c \in 1..Len(cards) :
                        cards[c].name = Head(names)]>>
        ELSE << >>)
       \o get_cards(cards, Tail(names))

\* the context select_for_writing has built before the budget is applied
Selected(project, chapter, chapter_goal, characters) ==
  LET all_summaries == get_previous_summaries(project.chapters, chapter, 20)
      char_names ==
        IF characters = << >>
        THEN [i \in 1..Len(project.characters) |-> project.characters[i].name]
        ELSE characters
  IN [characters |-> SelectCharacters(chapter_goal, characters,
                                     get_cards(project.characters, char_names)),
      world |-> SelectWorld(chapter_goal, project.world),
      style |-> project.style,
      rules |-> project.rules,
      facts |-> SelectFacts(chapter_goal, project.facts),
      summaries |-> SelectSummaries(chapter_goal, all_summaries)]

\* texts of 20000 estimated tokens and of 1 estimated token
HugeItem == <<Run("zh", 30000)>>

TinyItem == <<Run("en", 4)>>

\* cards by ranking text, cosine and measured text; a card is named by its
\* place in the project's list
CardKinds ==
  {<<SeaText, 1, SmallItem>>, <<NearText, 50, SmallItem>>,
   <<NearText, 4, SmallItem>>, <<NearText, 50, HugeItem>>}

Cards(kinds) ==
  [i \in 1..Len(kinds) |->
     [name |-> i, words |-> kinds[i][1], cos |-> kinds[i][2],
      text |-> kinds[i][3]]]

CardLists == {Cards(ks) : ks \in SeqsUpTo(CardKinds, MaxCards)}

WorldKinds ==
  {<<SeaText, 1, SmallItem>>, <<NearText, 4, SmallItem>>,
   <<NearText, 50, HugeItem>>}

WorldLists == {Cards(ks) : ks \in SeqsUpTo(WorldKinds, MaxCards)}

\* the participants a caller names: none, stored ones, one that is not stored
Requests == {<< >>, <<1>>, <<2>>, <<2, 1>>, <<MaxCards + 1>>}

\* prior chapters by summary: none, or one of cosine 0 or 0.10; a chapter is
\* named by its place in the project
ChapterKinds == {<<"none", 0>>, <<"sea", 1>>, <<"near", 10>>}

Chapters(kinds) ==
  [i \in 1..Len(kinds) |->
     [chapter |-> i,
      summary |->
        IF kinds[i][1] = "none" THEN NoSummary
        ELSE [chapter |-> i, name |-> i, text |-> TinyItem,
              words |-> IF kinds[i][1] = "sea" THEN SeaText ELSE NearText,
              cos |-> kinds[i][2]]]]

FactKinds == {"critical", "normal", "minor"}

Facts(kinds) ==
  [i \in 1..Len(kinds) |->
     [name |-> i, importance |-> kinds[i], text |-> SmallItem,
      words |-> NearText, cos |-> 10 * i]]

EmptyProject ==
  [characters |-> << >>, world |-> << >>, style |-> "style",
   rules |-> "rules", facts |-> << >>, chapters |-> << >>]

Call(project, chapter, chapter_goal, characters) ==
  [project |-> project, chapter |-> chapter, chapter_goal |-> chapter_goal,
   characters |-> characters]

\* calls over the cards of a project
CardCalls ==
  {Call([EmptyProject EXCEPT !.characters = cs, !.world = ws], 1, g, r) :
     cs \in CardLists, ws \in WorldLists,
     g \in {EmptyText, StopText, GoalText}, r \in Requests}

\* calls that name eleven stored participants
CrowdCalls ==
  {Call([EmptyProject EXCEPT
           !.characters = Cards([i \in 1..11 |-> <<NearText, 50, SmallItem>>])],
        1, g, [i \in 1..11 |-> i]) :
     g \in {EmptyText, GoalText}}

\* calls over the prior chapters of a project; the current chapter is the
\* one after them, with a directory of its own or not yet
ChapterCalls ==
  {Call([EmptyProject EXCEPT
           !.chapters =
              Chapters(ks) \o (IF listed THEN <<[chapter |-> Len(ks) + 1,
                                                 summary |-> NoSummary]>>
                               ELSE << >>)],
        Len(ks) + 1, g, << >>) :
     ks \in SeqsUpTo(ChapterKinds, MaxChapters), listed \in BOOLEAN,
     g \in {EmptyText, GoalText}}

\* calls over the facts of a project, and one over six facts
FactCalls ==
  {Call([EmptyProject EXCEPT !.facts = Facts(ks)], 1, g, << >>) :
     ks \in SeqsUpTo(FactKinds, MaxFacts) \cup {[i \in 1..6 |-> "normal"]},
     g \in {EmptyText, GoalText}}

SelectCalls == CardCalls \cup CrowdCalls \cup ChapterCalls \cup FactCalls

InitSelect == selCall = NoCall

(* ---------------- llm/client.py: values and operators ---------------- *)

\* largest retry argument of a chat call, and most chat calls of a client
MaxRetry == 3

MaxChats == 2

\* the providers a configuration can yield (the keys of self.providers)
ProviderSets == {{}, {"openai"}, {"deepseek"}}

\* the provider argument of chat: None, or a name
NoProvider == "None"

ProviderArgs == {NoProvider, "openai", "deepseek"}

\* self.config.get("llm.default_provider", "openai")
default_provider == "openai"

\* total_tokens of the usage a provider reports
Usages == {0, 5}

\* if attempt < retry - 1: the failed attempt is followed by another one
MoreAttempts_always(at, r) == at < r

MoreAttempts(at, r) == at < r - 1

\* the seconds asyncio.sleep(2 ** attempt) waits
Backoff(at) == 2 ^ at

NoChatResult == [kind |-> "none"]

InitChat ==
  /\ cpc = "new"
  /\ providers = {}
  /\ provider_name = NoProvider
  /\ retry = 0
  /\ attempt = 0
  /\ chatResult = NoChatResult
  /\ total_requests = 0
  /\ tokens_total = 0
  /\ providerCalls = 0
  /\ failures = 0
  /\ sleeps = << >>
  /\ chats = 0

NoPrevious == [kind |-> "none"]

\* the two requests that reach the Orchestrator of one project
Callers == {1, 2}

\* a second work unit of the project
OtherChapter == "ch2"

NotCalled ==
  [pc |-> "idle", chapter |-> NoChapter, rewrite_i |-> 0, note |-> NoChapter,
   foreign |-> FALSE, result |-> NoResult]

(* ---------------- canon files and the extract request ---------------- *)

\* lines one append pathway may leave in one canon file
MaxLines == 1

Kinds == {"facts", "timeline", "states"}

\* the field that names the chapter an entry came from: Fact.source,
\* TimelineEvent.source, CharacterState.chapter
SourceKey(kind) == IF kind = "states" THEN "chapter" ELSE "source"

\* an entry of a canon file, by the chapter it names and the rest of it
Entry(kind, chapter, text) ==
  IF kind = "states" THEN [chapter |-> chapter, text |-> text]
  ELSE [source |-> chapter, text |-> text]

EmptyFiles == [kind \in Kinds |-> << >>]

\* every line of the file kept
remove_by_source_kept(lines, kind, chapter) == lines

\* remove_facts_by_source / remove_timeline_by_source /
\* remove_states_by_chapter: the file is read, the entries that name the
\* chapter are left out, the rest is written back in its order
RECURSIVE remove_by_source(_, _, _)
remove_by_source(lines, kind, chapter) ==
  IF lines = << >> THEN << >>
  ELSE IF Head(lines)[SourceKey(kind)] /= chapter
       THEN <<Head(lines)>> \o remove_by_source(Tail(lines), kind, chapter)
       ELSE remove_by_source(Tail(lines), kind, chapter)

\* extract_facts, lines 225-298: every extracted item names the chapter of
\* the call
Extracted(chapter, texts) ==
  [kind \in Kinds |->
     [i \in 1..Len(texts[kind]) |-> Entry(kind, chapter, texts[kind][i])]]

\* what the LLM's response yields, per kind
Extractions ==
  {[facts |-> << >>, timeline |-> << >>, states |-> << >>],
   [facts |-> <<"x">>, timeline |-> << >>, states |-> <<"y">>],
   [facts |-> <<"y">>, timeline |-> <<"x">>, states |-> << >>],
   [facts |-> <<"x", "y">>, timeline |-> <<"y">>, states |-> <<"x">>]}

\* add_fact / add_timeline_event / update_character_state for every item
AppendAll(files, items) ==
  [kind \in Kinds |-> files[kind] \o items[kind]]

NoRequest == [chapter |-> NoChapter, result |-> EmptyFiles, status |-> "none"]

InitExtract ==
  /\ canon_files = EmptyFiles
  /\ xpc = "idle"
  /\ xreq = NoRequest
  /\ xbefore = EmptyFiles
  /\ xprev = NoPrevious

InitMore ==
  /\ previous = NoPrevious
  /\ atBegin = [final |-> 0, summary |-> FALSE]
  /\ calls = [p \in Callers |-> NotCalled]
  /\ InitExtract
  /\ reviewCall = NoCall

InitExtra == InitBudget /\ InitSelect /\ InitChat /\ InitMore

InitUtil == InitCache /\ InitRead /\ InitExtra

(* ---------------- helpers ---------------- *)

\* the comparison with the threshold made strict
QualityOk_strict(score) == score > QUALITY_THRESHOLD

\* score >= self.QUALITY_THRESHOLD
QualityOk(score) == score >= QUALITY_THRESHOLD

\* DraftStorage.get_latest_draft(project, chapter) is not None
HasDraft(ch) == ch = Chapter /\ latest > 0

\* the oldest stored version read instead of the newest
LatestDraft_first(ch) == IF HasDraft(ch) THEN 1 ELSE 0

\* DraftStorage.get_latest_draft: the draft of versions[-1], the versions
\* sorted by number; 0 stands for None (no version stored)
LatestDraft(ch) == IF HasDraft(ch) THEN latest ELSE 0

\* self.status = s ; await self._notify(...): the notification dict is built
\* from self.status before the callback suspends
Transition(s) ==
  /\ status' = s
  /\ lastNote' = Value(s)
  /\ trace' = Append(trace, s)

\* _error(message), called inside the try body (ctx "try") or from the
\* except handler (ctx "handler"); suspends in its notification
Error(ctx) ==
  /\ Transition("ERROR")
  /\ errCtx' = ctx
  /\ pc' = "err_n"

\* top of the quality loop for rewrite_i = k, up to the notification
LoopIter(k) ==
  /\ rewrite_i' = k
  /\ rewrite_iteration' = k
  /\ Transition("WRITING")
  /\ pc' = "s_write_n"

\* the editing step left out: straight to WAITING
ToEditing_skipped ==
  /\ Transition("WAITING")
  /\ pc' = "s_wait_n"

\* after the quality loop: status EDITING and its notification
ToEditing ==
  /\ Transition("EDITING")
  /\ pc' = "s_edit_n"

\* the range of the loop one iteration too long
LoopAdvance_extra ==
  IF rewrite_i <= MAX_REWRITE_ITERATIONS
    THEN LoopIter(rewrite_i + 1)
    ELSE ToEditing /\ UNCHANGED <<rewrite_i, rewrite_iteration>>

\* for rewrite_i in range(MAX_REWRITE_ITERATIONS + 1): the next iteration,
\* or the end of the loop when the range is exhausted
LoopAdvance ==
  IF rewrite_i < MAX_REWRITE_ITERATIONS
    THEN LoopIter(rewrite_i + 1)
    ELSE ToEditing /\ UNCHANGED <<rewrite_i, rewrite_iteration>>

\* a failed review treated like a failed draft
OnReviewFailure_fatal == Error("try")

\* lines 155-158: a failed review only leaves the loop
OnReviewFailure == ToEditing /\ UNCHANGED errCtx

\* a failed draft passed on to the Reviewer
OnWriteFailure_ignored ==
  /\ Transition("REVIEWING")
  /\ pc' = "s_review_n"
  /\ UNCHANGED errCtx

\* lines 146-147: a failed draft ends the session
OnWriteFailure == Error("try")

\* the Writer called without review_feedback
NoFeedback == 0

\* the Writer never given the review
writer_kwargs_goal_only(i, held, last) == NoFeedback

\* lines 137-144: the keyword arguments of writer.run beyond chapter_goal and
\* target_words: on a rewrite, the summary of the review that review_result
\* holds, which is the last review of the call
writer_kwargs(i, held, last) ==
  IF held /= "none" /\ i > 0
    THEN IF held = "ok" THEN last ELSE NoFeedback
    ELSE NoFeedback

\* outcomes of the agents' LLM phase: a result, or an exception
ArchivistOutcomes == {"ok", "raise"}

AgentOutcomes == {"ok", "raise"}

Init ==
  /\ status = "IDLE"
  /\ current_chapter = NoChapter
  /\ iteration = 0
  /\ rewrite_iteration = 0
  /\ op = "none"
  /\ pc = "idle"
  /\ rewrite_i = 0
  /\ review_result = "none"
  /\ edit_result = "none"
  /\ draft_read = 0
  /\ errCtx = "none"
  /\ result = NoResult
  /\ brief = FALSE
  /\ latest = 0
  /\ final = 0
  /\ summary = FALSE
  /\ canon = ZeroCounts
  /\ extracted = ZeroCounts
  /\ saved_counts = ZeroCounts
  /\ canonBase = ZeroCounts
  /\ review_score = NoScore
  /\ edit_version = NoVersion
  /\ review_feedback = NoFeedback
  /\ returned = NoReturned
  /\ lastNote = "none"
  /\ writerCalls = 0
  /\ reviewerCalls = 0
  /\ editorCalls = 0
  /\ reviews = <<>>
  /\ trace = <<>>
  /\ raised = FALSE
  /\ entryStatus = "IDLE"
  /\ failedAgent = "none"
  /\ InitUtil

\* a new operation starts: its locals and its history are fresh
Enter(o) ==
  /\ pc = "idle"
  /\ op' = o
  /\ review_result' = "none"
  /\ edit_result' = "none"
  /\ writerCalls' = 0
  /\ reviewerCalls' = 0
  /\ editorCalls' = 0
  /\ reviews' = <<>>
  /\ raised' = FALSE
  /\ failedAgent' = "none"
  /\ entryStatus' = status
  /\ review_score' = NoScore
  /\ edit_version' = NoVersion
  /\ returned' = NoReturned
  /\ review_feedback' = NoFeedback

(* ---------------- start_session ---------------- *)

\* lines 94-105: reset the counters, create the chapter directory,
\* status BRIEFING, notification
StartSession ==
  /\ Enter("start")
  /\ latest + MAX_REWRITE_ITERATIONS + 2 <= MaxVersion
  /\ current_chapter' = Chapter
  /\ iteration' = 0
  /\ rewrite_iteration' = 0
  /\ rewrite_i' = 0
  /\ status' = "BRIEFING"
  /\ lastNote' = Value("BRIEFING")
  /\ trace' = <<"BRIEFING">>
  /\ errCtx' = "none"
  /\ draft_read' = 0
  /\ result' = NoResult
  /\ pc' = "s_brief_n"
  /\ UNCHANGED storeVars
  /\ extracted' = ZeroCounts
  /\ saved_counts' = ZeroCounts
  /\ canonBase' = canon
  /\ UNCHANGED utilVars

\* line 107: archivist.run is called and suspends in its reads and LLM call
ArchivistInvoke ==
  /\ pc = "s_brief_n"
  /\ pc' = "s_archivist"
  /\ UNCHANGED <<ctrlVars, op, rewrite_i, review_result, edit_result, draft_read,
                 errCtx, result, storeVars, lastNote, histVars>>
  /\ UNCHANGED finVars
  /\ UNCHANGED retVars
  /\ UNCHANGED utilVars

\* lines 107-129: archivist.run returns (brief saved) or raises; on success
\* the quality loop is entered with rewrite_i = 0
ArchivistReturn ==
  /\ pc = "s_archivist"
  /\ \E r \in ArchivistOutcomes :
       CASE r = "ok" ->
              /\ brief' = TRUE
              /\ LoopIter(0)
              /\ UNCHANGED <<errCtx, raised, failedAgent>>
         [] r = "fail" ->
              /\ Error("try")
              /\ failedAgent' = "archivist"
              /\ UNCHANGED <<brief, rewrite_i, rewrite_iteration, raised>>
         [] OTHER ->
              /\ Error("handler")
              /\ raised' = TRUE
              /\ UNCHANGED <<brief, rewrite_i, rewrite_iteration, failedAgent>>
  /\ UNCHANGED <<current_chapter, iteration, op, review_result, edit_result,
                 draft_read, result, latest, final, summary, canon,
                 writerCalls, reviewerCalls, editorCalls, reviews, entryStatus>>
  /\ UNCHANGED finVars
  /\ UNCHANGED retVars
  /\ UNCHANGED utilVars

\* line 141: writer.run is called; without a brief it returns success=false
\* at once (lines 146-147), otherwise it suspends in its LLM call
WriterInvoke ==
  /\ pc = "s_write_n"
  /\ writerCalls' = writerCalls + 1
  /\ review_feedback' = writer_kwargs(rewrite_i, review_result, Len(reviews))
  /\ IF ~brief
       THEN /\ failedAgent' = "writer"
            /\ OnWriteFailure
       ELSE /\ pc' = "s_writer"
            /\ UNCHANGED <<status, lastNote, trace, errCtx, failedAgent>>
  /\ UNCHANGED <<current_chapter, iteration, rewrite_iteration, op, rewrite_i,
                 review_result, edit_result, draft_read, result, storeVars,
                 reviewerCalls, editorCalls, reviews, raised, entryStatus>>
  /\ UNCHANGED finVars
  /\ UNCHANGED <<review_score, edit_version, returned>>
  /\ UNCHANGED utilVars

\* lines 141-151: writer.run saves the next draft version and returns, or
\* raises; on success status REVIEWING and its notification
WriterReturn ==
  /\ pc = "s_writer"
  /\ \E r \in AgentOutcomes :
       IF r = "ok"
         THEN /\ latest' = latest + 1
              /\ Transition("REVIEWING")
              /\ pc' = "s_review_n"
              /\ UNCHANGED <<errCtx, raised>>
         ELSE /\ Error("handler")
              /\ raised' = TRUE
              /\ UNCHANGED latest
  /\ UNCHANGED <<current_chapter, iteration, rewrite_iteration, op, rewrite_i,
                 review_result, edit_result, draft_read, result, brief, final,
                 summary, canon, writerCalls, reviewerCalls, editorCalls,
                 reviews, entryStatus, failedAgent>>
  /\ UNCHANGED finVars
  /\ UNCHANGED retVars
  /\ UNCHANGED utilVars

\* line 153: reviewer.run is called; without a draft it returns success=false
\* at once and the loop is left (lines 155-158, 178-179)
ReviewerInvoke ==
  /\ pc = "s_review_n"
  /\ reviewerCalls' = reviewerCalls + 1
  /\ IF ~HasDraft(current_chapter)
       THEN /\ review_result' = "fail"
            /\ review_score' = NoScore
            /\ reviews' = Append(reviews, ReviewFailed)
            /\ failedAgent' = "reviewer"
            /\ OnReviewFailure
       ELSE /\ pc' = "s_reviewer"
            /\ UNCHANGED <<status, lastNote, trace, review_result, reviews,
                           errCtx, failedAgent, review_score>>
  /\ UNCHANGED <<current_chapter, iteration, rewrite_iteration, op, rewrite_i,
                 edit_result, draft_read, result, storeVars,
                 writerCalls, editorCalls, raised, entryStatus>>
  /\ UNCHANGED finVars
  /\ UNCHANGED <<edit_version, returned, review_feedback>>
  /\ UNCHANGED utilVars

\* lines 153-175: reviewer.run returns a review with a score, or raises; the
\* score decides which notification is sent (the notification reads
\* self.status.value, which raises on a plain str)
ReviewerReturn ==
  /\ pc = "s_reviewer"
  /\ \E r \in AgentOutcomes, score \in Scores :
       IF r = "ok"
         THEN /\ review_result' = "ok"
              /\ review_score' = score
              /\ reviews' = Append(reviews, score)
              /\ IF HasValue(status)
                   THEN /\ lastNote' = Value(status)
                        /\ pc' = IF QualityOk(score) THEN "s_pass_n"
                                 ELSE IF rewrite_i < MAX_REWRITE_ITERATIONS
                                        THEN "s_rewrite_n"
                                        ELSE "s_max_n"
                        /\ UNCHANGED <<status, trace, errCtx, raised>>
                   ELSE /\ Error("handler")
                        /\ raised' = TRUE
         ELSE /\ Error("handler")
              /\ raised' = TRUE
              /\ UNCHANGED <<review_result, reviews, review_score>>
  /\ UNCHANGED <<current_chapter, iteration, rewrite_iteration, op, rewrite_i,
                 edit_result, draft_read, result, storeVars, writerCalls,
                 reviewerCalls, editorCalls, entryStatus, failedAgent>>
  /\ UNCHANGED finVars
  /\ UNCHANGED <<edit_version, returned, review_feedback>>
  /\ UNCHANGED utilVars

\* lines 168-169, 178-179: after the "quality reached" notification: break
PassNotified ==
  /\ pc = "s_pass_n"
  /\ ToEditing
  /\ UNCHANGED <<current_chapter, iteration, rewrite_iteration, op, rewrite_i,
                 review_result, edit_result, draft_read, errCtx, result,
                 storeVars, writerCalls, reviewerCalls, editorCalls, reviews,
                 raised, entryStatus, failedAgent>>
  /\ UNCHANGED finVars
  /\ UNCHANGED retVars
  /\ UNCHANGED utilVars

\* lines 172, 121-129: after the "rewrite" notification the loop advances
RewriteNotified ==
  /\ pc = "s_rewrite_n"
  /\ LoopAdvance
  /\ UNCHANGED <<current_chapter, iteration, op, review_result, edit_result,
                 draft_read, errCtx, result, storeVars, writerCalls,
                 reviewerCalls, editorCalls, reviews, raised, entryStatus, failedAgent>>
  /\ UNCHANGED finVars
  /\ UNCHANGED retVars
  /\ UNCHANGED utilVars

\* lines 175, 121, 178-179: after the "maximum reached" notification the
\* loop advances
MaxNotified ==
  /\ pc = "s_max_n"
  /\ LoopAdvance
  /\ UNCHANGED <<current_chapter, iteration, op,
                 review_result, edit_result, draft_read, errCtx, result,
                 storeVars, writerCalls, reviewerCalls, editorCalls, reviews,
                 raised, entryStatus, failedAgent>>
  /\ UNCHANGED finVars
  /\ UNCHANGED retVars
  /\ UNCHANGED utilVars

\* lines 181-185: editor.run is called; without a draft it returns
\* success=false at once, which start_session does not look at
EditorInvoke ==
  /\ pc = "s_edit_n"
  /\ editorCalls' = editorCalls + 1
  /\ IF ~HasDraft(current_chapter)
       THEN /\ edit_result' = "fail"
            /\ edit_version' = NoVersion
            /\ failedAgent' = "editor"
            /\ Transition("WAITING")
            /\ pc' = "s_wait_n"
       ELSE /\ pc' = "s_editor"
            /\ UNCHANGED <<status, lastNote, trace, edit_result, failedAgent,
                           edit_version>>
  /\ UNCHANGED <<current_chapter, iteration, rewrite_iteration, op, rewrite_i,
                 review_result, draft_read, errCtx, result, storeVars,
                 writerCalls, reviewerCalls, reviews, raised, entryStatus>>
  /\ UNCHANGED finVars
  /\ UNCHANGED <<review_score, returned, review_feedback>>
  /\ UNCHANGED utilVars

\* lines 181-185: editor.run saves the revised draft and returns, or raises
EditorReturn ==
  /\ pc = "s_editor"
  /\ \E r \in AgentOutcomes :
       IF r = "ok"
         THEN /\ latest' = latest + 1
              /\ edit_result' = "ok"
              /\ edit_version' = latest + 1
              /\ Transition("WAITING")
              /\ pc' = "s_wait_n"
              /\ UNCHANGED <<errCtx, raised>>
         ELSE /\ Error("handler")
              /\ raised' = TRUE
              /\ UNCHANGED <<latest, edit_result, edit_version>>
  /\ UNCHANGED <<current_chapter, iteration, rewrite_iteration, op, rewrite_i,
                 review_result, draft_read, result, brief, final, summary,
                 canon, writerCalls, reviewerCalls, editorCalls, reviews,
                 entryStatus, failedAgent>>
  /\ UNCHANGED finVars
  /\ UNCHANGED <<review_score, returned, review_feedback>>
  /\ UNCHANGED utilVars

\* lines 187-200: the success result is built from self.status.value
StartReturn ==
  /\ pc = "s_wait_n"
  /\ IF HasValue(status)
       THEN /\ result' = [kind |-> "ok", status |-> Value(status)]
            /\ returned' = [brief |-> TRUE, version |-> edit_version,
                            quality_score |-> review_score,
                            rewrite_count |-> rewrite_iteration]
            /\ pc' = "idle"
            /\ UNCHANGED <<status, lastNote, trace, errCtx, raised>>
       ELSE /\ Error("handler")
            /\ raised' = TRUE
            /\ UNCHANGED <<result, returned>>
  /\ UNCHANGED <<current_chapter, iteration, rewrite_iteration, op, rewrite_i,
                 review_result, edit_result, draft_read, storeVars,
                 writerCalls, reviewerCalls, editorCalls, reviews, entryStatus, failedAgent>>
  /\ UNCHANGED finVars
  /\ UNCHANGED <<review_score, edit_version, review_feedback>>
  /\ UNCHANGED utilVars

(* ---------------- _error ---------------- *)

\* lines 315-319: the error result is built from self.status.value; if that
\* raises inside a try body the handler calls _error again, otherwise the
\* exception leaves the operation
ErrorReturn ==
  /\ pc = "err_n"
  /\ IF HasValue(status)
       THEN /\ result' = [kind |-> "error", status |-> Value(status)]
            /\ pc' = "idle"
            /\ UNCHANGED <<status, lastNote, trace, errCtx, raised>>
       ELSE IF errCtx = "try"
              THEN /\ Error("handler")
                   /\ raised' = TRUE
                   /\ UNCHANGED result
              ELSE /\ result' = [kind |-> "raised", status |-> "-"]
                   /\ pc' = "idle"
                   /\ raised' = TRUE
                   /\ UNCHANGED <<status, lastNote, trace, errCtx>>
  /\ UNCHANGED <<current_chapter, iteration, rewrite_iteration, op, rewrite_i,
                 review_result, edit_result, draft_read, storeVars,
                 writerCalls, reviewerCalls, editorCalls, reviews, entryStatus, failedAgent>>
  /\ UNCHANGED finVars
  /\ UNCHANGED retVars
  /\ UNCHANGED utilVars

(* ---------------- submit_feedback ---------------- *)

\* the chapter the session API passes: orch.current_chapter or ""
FeedbackChapter == IF current_chapter = NoChapter THEN EmptyChapter ELSE current_chapter

\* lines 210-228, action /= "confirm": the counter is incremented, then
\* compared with the cap; a rejection returns at once, otherwise status
\* EDITING and its notification
FeedbackRevise ==
  /\ Enter("revise")
  /\ iteration < IterBound
  /\ latest + 1 <= MaxVersion
  /\ current_chapter' = FeedbackChapter
  /\ iteration' = iteration + 1
  /\ draft_read' = 0
  /\ errCtx' = "none"
  /\ IF iteration' >= max_iterations
       THEN /\ result' = [kind |-> "rejected", status |-> "-"]
            /\ pc' = "idle"
            /\ trace' = <<>>
            /\ UNCHANGED <<status, lastNote>>
       ELSE /\ status' = "EDITING"
            /\ lastNote' = Value("EDITING")
            /\ trace' = <<"EDITING">>
            /\ result' = NoResult
            /\ pc' = "r_edit_n"
  /\ UNCHANGED <<rewrite_iteration, rewrite_i, storeVars>>
  /\ extracted' = ZeroCounts
  /\ saved_counts' = ZeroCounts
  /\ canonBase' = canon
  /\ UNCHANGED utilVars

\* lines 230-236: editor.run(feedback=...) is called; without a draft it
\* returns success=false at once and the session fails
ReviseEditorInvoke ==
  /\ pc = "r_edit_n"
  /\ editorCalls' = editorCalls + 1
  /\ IF ~HasDraft(current_chapter)
       THEN /\ edit_result' = "fail"
            /\ failedAgent' = "editor"
            /\ Error("try")
       ELSE /\ pc' = "r_editor"
            /\ UNCHANGED <<status, lastNote, trace, edit_result, errCtx,
                           failedAgent>>
  /\ UNCHANGED <<current_chapter, iteration, rewrite_iteration, op, rewrite_i,
                 review_result, draft_read, result, storeVars, writerCalls,
                 reviewerCalls, reviews, raised, entryStatus>>
  /\ UNCHANGED finVars
  /\ UNCHANGED retVars
  /\ UNCHANGED utilVars

\* lines 230-239: editor.run saves the revised draft and returns, or raises
ReviseEditorReturn ==
  /\ pc = "r_editor"
  /\ \E r \in AgentOutcomes :
       IF r = "ok"
         THEN /\ latest' = latest + 1
              /\ edit_result' = "ok"
              /\ Transition("WAITING")
              /\ pc' = "r_wait_n"
              /\ UNCHANGED <<errCtx, raised>>
         ELSE /\ Error("handler")
              /\ raised' = TRUE
              /\ UNCHANGED <<latest, edit_result>>
  /\ UNCHANGED <<current_chapter, iteration, rewrite_iteration, op, rewrite_i,
                 review_result, draft_read, result, brief, final, summary,
                 canon, writerCalls, reviewerCalls, editorCalls, reviews,
                 entryStatus, failedAgent>>
  /\ UNCHANGED finVars
  /\ UNCHANGED retVars
  /\ UNCHANGED utilVars

\* lines 241-251: the success result is built from self.status.value
ReviseReturn ==
  /\ pc = "r_wait_n"
  /\ IF HasValue(status)
       THEN /\ result' = [kind |-> "ok", status |-> Value(status)]
            /\ pc' = "idle"
            /\ UNCHANGED <<status, lastNote, trace, errCtx, raised>>
       ELSE /\ Error("handler")
            /\ raised' = TRUE
            /\ UNCHANGED result
  /\ UNCHANGED <<current_chapter, iteration, rewrite_iteration, op, rewrite_i,
                 review_result, edit_result, draft_read, storeVars,
                 writerCalls, reviewerCalls, editorCalls, reviews, entryStatus, failedAgent>>
  /\ UNCHANGED finVars
  /\ UNCHANGED retVars
  /\ UNCHANGED utilVars

(* ---------------- _finalize ---------------- *)

\* lines 210-214, 255-259: action = "confirm"; the versions are listed, with
\* none _error is called, otherwise the latest version is read
ConfirmBegin(cap) ==
  /\ Enter("confirm")
  /\ HasDraft(FeedbackChapter)
       => \A k \in DOMAIN canon : canon[k] + MaxExtract <= cap
  /\ current_chapter' = FeedbackChapter
  /\ result' = NoResult
  /\ extracted' = ZeroCounts
  /\ saved_counts' = ZeroCounts
  /\ canonBase' = canon
  /\ IF ~HasDraft(FeedbackChapter)
       THEN /\ status' = "ERROR"
            /\ lastNote' = Value("ERROR")
            /\ trace' = <<"ERROR">>
            /\ errCtx' = "try"
            /\ draft_read' = 0
            /\ pc' = "err_n"
       ELSE /\ draft_read' = LatestDraft(FeedbackChapter)
            /\ trace' = <<>>
            /\ errCtx' = "none"
            /\ pc' = "f_read"
            /\ UNCHANGED <<status, lastNote>>
  /\ UNCHANGED <<iteration, rewrite_iteration, rewrite_i, storeVars>>

\* a confirm that begins while every canon file has room for one extraction
FeedbackConfirm ==
  /\ ConfirmBegin(MaxCanon)
  /\ UNCHANGED utilVars

\* lines 257-265: the draft read is saved as the final text, then the
\* "generating summary" notification goes out with the current status
FinalizeSaveFinal ==
  /\ pc = "f_read"
  /\ \E r \in AgentOutcomes :
       IF r = "ok"
         THEN /\ final' = draft_read
              /\ IF HasValue(status)
                   THEN /\ lastNote' = Value(status)
                        /\ pc' = "f_notify"
                        /\ UNCHANGED <<status, trace, errCtx, raised>>
                   ELSE /\ Error("handler")
                        /\ raised' = TRUE
         ELSE /\ Error("handler")
              /\ raised' = TRUE
              /\ UNCHANGED final
  /\ UNCHANGED <<current_chapter, iteration, rewrite_iteration, op, rewrite_i,
                 review_result, edit_result, draft_read, result, brief, latest,
                 summary, canon, writerCalls, reviewerCalls, editorCalls,
                 reviews, entryStatus, failedAgent>>
  /\ UNCHANGED finVars
  /\ UNCHANGED retVars
  /\ UNCHANGED utilVars

\* lines 267-270: summary generation and fact extraction are started together
FinalizeGather ==
  /\ pc = "f_notify"
  /\ pc' = "f_gather"
  /\ UNCHANGED <<ctrlVars, op, rewrite_i, review_result, edit_result, draft_read,
                 errCtx, result, storeVars, lastNote, histVars>>
  /\ UNCHANGED finVars
  /\ UNCHANGED retVars
  /\ UNCHANGED utilVars

\* the first kind, in saving order, that has an extracted item left to save
NextKind(sc, ex) ==
  IF sc.facts < ex.facts THEN "facts"
  ELSE IF sc.timeline < ex.timeline THEN "timeline"
  ELSE "states"

\* the item left out of the file
AppendCanon_dropped(c, k) == c

\* the file of kind k rewritten with the one item
AppendCanon_replaced(c, k) == [c EXCEPT ![k] = 1]

\* add_fact / add_timeline_event / update_character_state: append_jsonl adds
\* one line to the file of kind k
AppendCanon(c, k) == [c EXCEPT ![k] = @ + 1]

\* saved_counts[k] += 1
Counted(sc, k) == [sc EXCEPT ![k] = @ + 1]

\* archivist.py lines 315-325, inside the summary branch of the gather:
\* chat has returned and generate_summary writes the summary before it
\* returns to the gather
FinalizeSummarySaved ==
  /\ pc = "f_gather"
  /\ summary' = TRUE
  /\ pc' = "f_join"
  /\ UNCHANGED <<ctrlVars, op, rewrite_i, review_result, edit_result, draft_read,
                 errCtx, result, brief, latest, final, canon, lastNote,
                 histVars>>
  /\ UNCHANGED finVars
  /\ UNCHANGED retVars
  /\ UNCHANGED utilVars

\* lines 270-273: both branches are joined; extract_facts has returned its
\* three lists (success is always True) after generate_summary has saved
\* the summary; with nothing to save the call goes on to COMPLETED.  An
\* exception of either branch ends the gather at once and leaves the
\* summary written or not.
FinalizeExtracted ==
  /\ pc \in {"f_gather", "f_join"}
  /\ \E r \in AgentOutcomes :
       IF r = "ok"
         THEN /\ pc = "f_join"
              /\ UNCHANGED summary
              /\ \E f \in 0..MaxExtract, e \in 0..MaxExtract, s \in 0..MaxExtract :
                   extracted' = [facts |-> f, timeline |-> e, states |-> s]
              /\ saved_counts' = ZeroCounts
              /\ IF extracted' = ZeroCounts
                   THEN /\ Transition("COMPLETED")
                        /\ pc' = "f_done_n"
                   ELSE /\ pc' = "f_save"
                        /\ UNCHANGED <<status, lastNote, trace>>
              /\ UNCHANGED <<errCtx, raised>>
         ELSE /\ \E s \in {summary, TRUE} : summary' = s
              /\ Error("handler")
              /\ raised' = TRUE
              /\ UNCHANGED <<extracted, saved_counts>>
  /\ UNCHANGED <<current_chapter, iteration, rewrite_iteration, op, rewrite_i,
                 review_result, edit_result, draft_read, result, brief, latest,
                 final, canon, canonBase, writerCalls, reviewerCalls,
                 editorCalls, reviews, entryStatus, failedAgent>>
  /\ UNCHANGED retVars
  /\ UNCHANGED utilVars

\* lines 275-298: one pass of the three saving loops: the next extracted
\* item is appended to its canon file and counted; after the last one
\* status COMPLETED and its notification.  A failed append raises.
FinalizeSaveItem ==
  /\ pc = "f_save"
  /\ \E r \in AgentOutcomes :
       IF r = "ok"
         THEN /\ canon' = AppendCanon(canon, NextKind(saved_counts, extracted))
              /\ saved_counts' = Counted(saved_counts, NextKind(saved_counts, extracted))
              /\ IF saved_counts' = extracted
                   THEN /\ Transition("COMPLETED")
                        /\ pc' = "f_done_n"
                   ELSE /\ pc' = "f_save"
                        /\ UNCHANGED <<status, lastNote, trace>>
              /\ UNCHANGED <<errCtx, raised>>
         ELSE /\ Error("handler")
              /\ raised' = TRUE
              /\ UNCHANGED <<canon, saved_counts>>
  /\ UNCHANGED <<current_chapter, iteration, rewrite_iteration, op, rewrite_i,
                 review_result, edit_result, draft_read, result, brief, latest,
                 final, summary, extracted, canonBase, writerCalls,
                 reviewerCalls, editorCalls, reviews, entryStatus, failedAgent>>
  /\ UNCHANGED retVars
  /\ UNCHANGED utilVars

\* lines 300-309: the success result is built from self.status.value
FinalizeReturn ==
  /\ pc = "f_done_n"
  /\ IF HasValue(status)
       THEN /\ result' = [kind |-> "ok", status |-> Value(status)]
            /\ pc' = "idle"
            /\ UNCHANGED <<status, lastNote, trace, errCtx, raised>>
       ELSE /\ Error("handler")
            /\ raised' = TRUE
            /\ UNCHANGED result
  /\ UNCHANGED <<current_chapter, iteration, rewrite_iteration, op, rewrite_i,
                 review_result, edit_result, draft_read, storeVars,
                 writerCalls, reviewerCalls, editorCalls, reviews, entryStatus, failedAgent>>
  /\ UNCHANGED finVars
  /\ UNCHANGED retVars
  /\ UNCHANGED utilVars

(* ---------------- session and draft API ---------------- *)

\* POST /cancel/{project_id}: orch.status = "idle", nothing else
cancel_session ==
  /\ status' = RawIdle
  /\ UNCHANGED <<current_chapter, iteration, rewrite_iteration, callVars,
                 storeVars, lastNote, histVars>>
  /\ UNCHANGED finVars
  /\ UNCHANGED retVars
  /\ UNCHANGED utilVars

\* a cancel request that arrives while no Controller operation is in flight
CancelBetween ==
  /\ pc = "idle"
  /\ cancel_session

\* DELETE /drafts/{chapter}: the chapter directory is removed with its
\* brief, drafts, final text and summary
delete_chapter ==
  /\ brief \/ latest > 0 \/ final > 0 \/ summary
  /\ brief' = FALSE
  /\ latest' = 0
  /\ final' = 0
  /\ summary' = FALSE
  /\ UNCHANGED <<ctrlVars, callVars, canon, lastNote, histVars>>
  /\ UNCHANGED finVars
  /\ UNCHANGED retVars
  /\ UNCHANGED utilVars

(* ---------------- specification ---------------- *)

\* one Controller operation at a time (start_session, submit_feedback or
\* cancel); requests to the draft API arrive at any suspension point
Next ==
  \/ StartSession
  \/ ArchivistInvoke
  \/ ArchivistReturn
  \/ WriterInvoke
  \/ WriterReturn
  \/ ReviewerInvoke
  \/ ReviewerReturn
  \/ PassNotified
  \/ RewriteNotified
  \/ MaxNotified
  \/ EditorInvoke
  \/ EditorReturn
  \/ StartReturn
  \/ ErrorReturn
  \/ FeedbackRevise
  \/ ReviseEditorInvoke
  \/ ReviseEditorReturn
  \/ ReviseReturn
  \/ FeedbackConfirm
  \/ FinalizeSaveFinal
  \/ FinalizeGather
  \/ FinalizeSummarySaved
  \/ FinalizeExtracted
  \/ FinalizeSaveItem
  \/ FinalizeReturn
  \/ CancelBetween
  \/ delete_chapter

Spec == Init /\ [][Next]_vars

(* ---------------- LRUCache ---------------- *)

\* the record of what set wrote, kept for the keys still stored
Kept(st, c) == [x \in DOMAIN st \cap DOMAIN c |-> st[x]]

\* the keys still stored, in their order of last use
KeptOrder(uo, c) == SelectSeq(uo, LAMBDA x : x \in DOMAIN c)

\* time.time() advances
Tick ==
  /\ now < MaxTime
  /\ now' = now + 1
  /\ lastOp' = [op |-> "tick", key |-> <<>>, ret |-> None]
  /\ UNCHANGED <<cache, access_order, stored, useOrder, readVars, pipelineVars, extraVars>>

\* LRUCache.get(key)
LRUCache_get ==
  \E k \in CacheKeys :
    /\ cache' = lru_get(cache, access_order, k, now).cache
    /\ access_order' = lru_get(cache, access_order, k, now).order
    /\ lastOp' = [op |-> "get", key |-> k, ret |-> lru_get_ret(cache, k, now)]
    /\ stored' = Kept(stored, cache')
    /\ useOrder' = KeptOrder(IF lastOp'.ret /= None
                               THEN Append(ListRemove(useOrder, k), k)
                               ELSE useOrder, cache')
    /\ UNCHANGED <<now, readVars, pipelineVars, extraVars>>

\* LRUCache.set(key, value, ttl)
LRUCache_set ==
  \E k \in CacheKeys, v \in CacheValues, ttl \in TTLs :
    /\ cache' = lru_set(cache, access_order, k, v, ttl, now).cache
    /\ access_order' = lru_set(cache, access_order, k, v, ttl, now).order
    /\ lastOp' = [op |-> "set", key |-> k, ret |-> None]
    /\ stored' = Kept(DictPut(stored, k, [value |-> v, timestamp |-> now, ttl |-> ttl]),
                      cache')
    /\ useOrder' = KeptOrder(Append(ListRemove(useOrder, k), k), cache')
    /\ UNCHANGED <<now, readVars, pipelineVars, extraVars>>

\* LRUCache.delete(key)
LRUCache_delete ==
  \E k \in CacheKeys :
    /\ cache' = lru_delete(cache, access_order, k).cache
    /\ access_order' = lru_delete(cache, access_order, k).order
    /\ lastOp' = [op |-> "delete", key |-> k, ret |-> None]
    /\ stored' = Kept(stored, cache')
    /\ useOrder' = KeptOrder(useOrder, cache')
    /\ UNCHANGED <<now, readVars, pipelineVars, extraVars>>

\* LRUCache.clear()
LRUCache_clear ==
  /\ cache' = << >>
  /\ access_order' = << >>
  /\ lastOp' = [op |-> "clear", key |-> <<>>, ret |-> None]
  /\ stored' = << >>
  /\ useOrder' = << >>
  /\ UNCHANGED <<now, readVars, pipelineVars, extraVars>>

\* LRUCache.invalidate_prefix(prefix)
LRUCache_invalidate_prefix ==
  \E prefix \in Prefixes :
    /\ cache' = lru_invalidate_prefix(cache, access_order, prefix).cache
    /\ access_order' = lru_invalidate_prefix(cache, access_order, prefix).order
    /\ lastOp' = [op |-> "invalidate_prefix", key |-> prefix, ret |-> None]
    /\ stored' = Kept(stored, cache')
    /\ useOrder' = KeptOrder(useOrder, cache')
    /\ UNCHANGED <<now, readVars, pipelineVars, extraVars>>

\* any sequence of operations on one LRUCache while the clock runs
NextCache ==
  \/ Tick
  \/ LRUCache_get
  \/ LRUCache_set
  \/ LRUCache_delete
  \/ LRUCache_clear
  \/ LRUCache_invalidate_prefix

SpecCache == Init /\ [][NextCache]_vars

(* ---------------- cached and invalidate_cache ---------------- *)

\* highest version the model lets the item reach
MaxDisk == 3

\* _make_key("fact", project_id): the key, and the prefix of its category
FactKey == <<"f", ":", "1">>

\* TTL_CONFIG["fact"], 120 seconds, in ticks
FactTtl == 2

\* cached, lines 229-235: the wrapper asks the cache; a hit is returned at
\* once, on a miss func is called and suspends in its file read
CachedReadBegin ==
  /\ rpc = "idle"
  /\ rmin' = completed
  /\ cache' = lru_get(cache, access_order, FactKey, now).cache
  /\ access_order' = lru_get(cache, access_order, FactKey, now).order
  /\ lastOp' = [op |-> "get", key |-> FactKey, ret |-> lru_get_ret(cache, FactKey, now)]
  /\ stored' = Kept(stored, cache')
  /\ useOrder' = KeptOrder(IF lastOp'.ret /= None
                             THEN Append(ListRemove(useOrder, FactKey), FactKey)
                             ELSE useOrder, cache')
  /\ IF lastOp'.ret /= None
       THEN /\ rret' = lastOp'.ret
            /\ rpc' = "idle"
       ELSE /\ rpc' = "r_func"
            /\ UNCHANGED rret
  /\ UNCHANGED <<now, disk, rval, wpc, completed, readTimes, pipelineVars, extraVars>>

\* line 238, inside func: the file is read; func has yet to return
CachedReadFunc ==
  /\ rpc = "r_func"
  /\ rval' = disk
  /\ rpc' = "r_read"
  /\ UNCHANGED <<lruVars, disk, rret, wpc, completed, rmin, readTimes, pipelineVars, extraVars>>

\* lines 238-244: func returns, its result is put in the cache and returned
CachedReadFill ==
  /\ rpc = "r_read"
  /\ cache' = lru_set(cache, access_order, FactKey, rval, FactTtl, now).cache
  /\ access_order' = lru_set(cache, access_order, FactKey, rval, FactTtl, now).order
  /\ lastOp' = [op |-> "set", key |-> FactKey, ret |-> None]
  /\ stored' = Kept(DictPut(stored, FactKey,
                            [value |-> rval, timestamp |-> now, ttl |-> FactTtl]),
                    cache')
  /\ useOrder' = KeptOrder(Append(ListRemove(useOrder, FactKey), FactKey), cache')
  /\ rret' = rval
  /\ rpc' = "idle"
  /\ UNCHANGED <<now, disk, rval, wpc, completed, rmin, readTimes, pipelineVars, extraVars>>

\* invalidate_cache, lines 260-261: the wrapper calls func, which suspends
\* before it writes
InvalidatingWriteBegin ==
  /\ wpc = "idle"
  /\ disk < MaxDisk
  /\ wpc' = "w_func"
  /\ UNCHANGED <<lruVars, disk, rpc, rval, rret, completed, rmin, readTimes,
                 pipelineVars, extraVars>>

\* line 261, inside func: the file is written; func has yet to return
InvalidatingWriteFunc ==
  /\ wpc = "w_func"
  /\ disk' = disk + 1
  /\ readTimes' = << >>
  /\ wpc' = "w_written"
  /\ UNCHANGED <<lruVars, rpc, rval, rret, completed, rmin, pipelineVars, extraVars>>

\* lines 261-267: func returns, the category is invalidated, the wrapper
\* returns
InvalidatingWriteReturn ==
  /\ wpc = "w_written"
  /\ cache' = lru_invalidate_prefix(cache, access_order, FactKey).cache
  /\ access_order' = lru_invalidate_prefix(cache, access_order, FactKey).order
  /\ lastOp' = [op |-> "invalidate_prefix", key |-> FactKey, ret |-> None]
  /\ stored' = Kept(stored, cache')
  /\ useOrder' = KeptOrder(useOrder, cache')
  /\ completed' = disk
  /\ wpc' = "idle"
  /\ UNCHANGED <<now, disk, rpc, rval, rret, rmin, readTimes, pipelineVars, extraVars>>

\* CanonStorage.get_facts / CardStorage.get_character as they are defined,
\* without a decorator: every call reads the file
get_facts ==
  /\ readTimes' = IF Len(readTimes) < 2
                    THEN Append(readTimes, now)
                    ELSE <<readTimes[2], now>>
  /\ UNCHANGED <<lruVars, disk, rpc, rval, rret, wpc, completed, rmin,
                 pipelineVars, extraVars>>

\* one reader through cached, one writer through invalidate_cache and the
\* storage's own read method, interleaved at their suspension points
NextRead ==
  \/ Tick
  \/ CachedReadBegin
  \/ CachedReadFunc
  \/ CachedReadFill
  \/ InvalidatingWriteBegin
  \/ InvalidatingWriteFunc
  \/ InvalidatingWriteReturn
  \/ get_facts

SpecRead == Init /\ [][NextRead]_vars

(* ---------------- core/budgeter.py: TokenBudgeter ---------------- *)

\* the state of everything but the budgeter
nonBudgetVars == <<pipelineVars, lruVars, readVars, selVars, chatVars, moreVars>>

\* budgeter.allocate_context(context, priorities) on a budgeter built with
\* any BudgetConfig. The methods of the budgeter keep no state between calls,
\* so a behaviour makes one call.
allocate_context ==
  /\ budgetCall = NoCall
  /\ \E config \in Configs, context \in Contexts, priorities \in PriorityLists :
      /\ budgetCall' =
           [kind |-> "allocate", config |-> config, context |-> context,
            priorities |-> priorities,
            allocated |-> Allocated(config, context, priorities)]
      /\ UNCHANGED nonBudgetVars

\* budgeter.truncate_to_budget(text, category)
TruncateCall ==
  /\ budgetCall = NoCall
  /\ \E config \in Configs, text \in Texts, category \in Categories :
      /\ budgetCall' =
           [kind |-> "truncate", config |-> config, text |-> text,
            category |-> category,
            out |-> truncate_to_budget(config, text, category)]
      /\ UNCHANGED nonBudgetVars

NextBudget == allocate_context \/ TruncateCall

SpecBudget == Init /\ [][NextBudget]_vars

(* ---------------- core/context.py: TextSimilarity, ContextSelector ---------------- *)

\* the state of everything but the context selector
nonSelectVars == <<pipelineVars, lruVars, readVars, budgetVars, chatVars, moreVars>>

\* similarity.rank_by_similarity(query, documents, top_k); it keeps no state
\* between calls, so a behaviour makes one call
rank_by_similarity ==
  /\ selCall = NoCall
  /\ \E query \in Goals, documents \in Documents, top_k \in TopKs :
      /\ selCall' =
           [kind |-> "rank", query |-> query, documents |-> documents,
            top_k |-> top_k, out |-> Ranked(query, documents, top_k)]
      /\ UNCHANGED nonSelectVars

\* selector.select_for_writing(project_id, chapter, chapter_goal, characters)
\* over the cards, facts and chapters of a project: it reads the stores,
\* selects, and applies the budget of the global budgeter
select_for_writing ==
  /\ selCall = NoCall
  /\ \E c \in SelectCalls :
      /\ LET context == Selected(c.project, c.chapter, c.chapter_goal,
                                 c.characters)
         IN selCall' =
              [kind |-> "select", project |-> c.project, chapter |-> c.chapter,
               chapter_goal |-> c.chapter_goal, characters |-> c.characters,
               all_summaries |->
                 get_previous_summaries(c.project.chapters, c.chapter, 20),
               ranked_summaries |->
                 IF c.chapter_goal # << >>
                 THEN RankedSummaries(c.chapter_goal,
                        get_previous_summaries(c.project.chapters, c.chapter,
                                               20))
                 ELSE << >>,
               selected |-> context,
               bundle |-> Allocated(DefaultConfig, context, DefaultPriorities)]
      /\ UNCHANGED nonSelectVars

NextSelect == rank_by_similarity \/ select_for_writing

SpecSelect == Init /\ [][NextSelect]_vars

(* ---------------- llm/client.py: LLMClient ---------------- *)

\* the state of everything but the LLM client
nonChatVars == <<pipelineVars, lruVars, readVars, budgetVars, selVars, moreVars>>

\* LLMClient(): the providers the configuration has usable keys for
LLMClient_init ==
  /\ cpc = "new"
  /\ providers' \in ProviderSets
  /\ cpc' = "idle"
  /\ UNCHANGED <<provider_name, retry, attempt, chatResult, total_requests,
                 tokens_total, providerCalls, failures, sleeps, chats,
                 nonChatVars>>

\* raise LLMError(...)
RaiseLLMError(name) ==
  /\ chatResult' = [kind |-> "LLMError", provider |-> name]
  /\ cpc' = "idle"

\* chat(messages, provider, retry=r) up to the first await: the provider is
\* resolved, and the loop is entered unless range(retry) is empty
ChatBegin ==
  /\ cpc = "idle"
  /\ chats < MaxChats
  /\ chats' = chats + 1
  /\ \E provider \in ProviderArgs, r \in 0..MaxRetry :
       LET wanted == IF provider = NoProvider THEN default_provider
                     ELSE provider
       IN /\ retry' = r
          /\ attempt' = 0
          /\ providerCalls' = 0
          /\ failures' = 0
          /\ sleeps' = << >>
          /\ IF wanted \notin providers /\ providers = {}
             THEN /\ provider_name' = wanted
                  /\ chatResult' = [kind |-> "LLMError", provider |-> NoProvider]
                  /\ cpc' = "idle"
             ELSE /\ provider_name' =
                       IF wanted \in providers THEN wanted
                       ELSE CHOOSE p \in providers : TRUE
                  /\ IF r > 0
                     THEN cpc' = "call" /\ UNCHANGED chatResult
                     ELSE RaiseLLMError(IF wanted \in providers THEN wanted
                                        ELSE CHOOSE p \in providers : TRUE)
  /\ UNCHANGED <<providers, total_requests, tokens_total, nonChatVars>>

\* await llm.chat(...) returns: the statistics are updated and the result is
\* returned
ProviderReturns ==
  /\ cpc = "call"
  /\ \E usage \in Usages :
       /\ tokens_total' = tokens_total + usage
       /\ chatResult' =
            [kind |-> "result", provider |-> provider_name, attempt |-> attempt]
  /\ total_requests' = total_requests + 1
  /\ providerCalls' = providerCalls + 1
  /\ cpc' = "idle"
  /\ UNCHANGED <<providers, provider_name, retry, attempt, failures, sleeps,
                 chats, nonChatVars>>

\* await llm.chat(...) raises: the handler sleeps before the next attempt,
\* or the loop ends and LLMError is raised
ProviderRaises ==
  /\ cpc = "call"
  /\ providerCalls' = providerCalls + 1
  /\ failures' = failures + 1
  /\ IF MoreAttempts(attempt, retry)
     THEN /\ sleeps' = Append(sleeps, Backoff(attempt))
          /\ cpc' = "sleep"
          /\ UNCHANGED chatResult
     ELSE /\ RaiseLLMError(provider_name)
          /\ UNCHANGED sleeps
  /\ UNCHANGED <<providers, provider_name, retry, attempt, total_requests,
                 tokens_total, chats, nonChatVars>>

\* asyncio.sleep returns: the next attempt, or the end of the loop
SleepDone ==
  /\ cpc = "sleep"
  /\ attempt' = attempt + 1
  /\ IF attempt + 1 < retry
     THEN cpc' = "call" /\ UNCHANGED chatResult
     ELSE RaiseLLMError(provider_name)
  /\ UNCHANGED <<providers, provider_name, retry, total_requests, tokens_total,
                 providerCalls, failures, sleeps, chats, nonChatVars>>

NextChat ==
  \/ LLMClient_init
  \/ ChatBegin
  \/ ProviderReturns
  \/ ProviderRaises
  \/ SleepDone

SpecChat == Init /\ [][NextChat]_vars

\* a provider call returns or raises, and a sleep ends
FairChat ==
  /\ SpecChat
  /\ WF_vars(ProviderReturns \/ ProviderRaises)
  /\ WF_vars(SleepDone)

(* ---------------- cancel and callback failures during a run ---------------- *)

\* the awaits of a progress notification inside a try body
NotifyPcs ==
  {"s_brief_n", "s_write_n", "s_review_n", "s_pass_n", "s_rewrite_n",
   "s_max_n", "s_edit_n", "s_wait_n", "r_edit_n", "r_wait_n", "f_notify",
   "f_done_n"}

\* the awaits of an agent call of start_session
AgentCallPcs == {"s_archivist", "s_writer", "s_reviewer", "s_editor"}

\* POST /cancel/{project_id} handled while an operation is suspended
CancelDuring ==
  /\ pc /= "idle"
  /\ cancel_session

\* _notify does not catch: an exception of the on_progress callback leaves
\* the await of the notification; in a try body the handler calls _error,
\* whose own notification is not in any try
CallbackRaises ==
  /\ pc \in NotifyPcs \cup {"err_n"}
  /\ raised' = TRUE
  /\ IF pc = "err_n" /\ errCtx = "handler"
       THEN /\ result' = [kind |-> "raised", status |-> "-"]
            /\ pc' = "idle"
            /\ UNCHANGED <<status, lastNote, trace, errCtx>>
       ELSE /\ Error("handler")
            /\ UNCHANGED result
  /\ UNCHANGED <<current_chapter, iteration, rewrite_iteration, op, rewrite_i,
                 review_result, edit_result, draft_read, storeVars, finVars,
                 writerCalls, reviewerCalls, editorCalls, reviews, entryStatus,
                 failedAgent>>
  /\ UNCHANGED retVars
  /\ UNCHANGED utilVars

\* the Controller with its environment unrestricted: a cancel request may be
\* handled at any suspension point and the injected callback may raise
NextEnv ==
  \/ StartSession
  \/ ArchivistInvoke
  \/ ArchivistReturn
  \/ WriterInvoke
  \/ WriterReturn
  \/ ReviewerInvoke
  \/ ReviewerReturn
  \/ PassNotified
  \/ RewriteNotified
  \/ MaxNotified
  \/ EditorInvoke
  \/ EditorReturn
  \/ StartReturn
  \/ ErrorReturn
  \/ FeedbackRevise
  \/ ReviseEditorInvoke
  \/ ReviseEditorReturn
  \/ ReviseReturn
  \/ FeedbackConfirm
  \/ FinalizeSaveFinal
  \/ FinalizeGather
  \/ FinalizeSummarySaved
  \/ FinalizeExtracted
  \/ FinalizeSaveItem
  \/ FinalizeReturn
  \/ CancelBetween
  \/ CancelDuring
  \/ CallbackRaises

SpecEnv == Init /\ [][NextEnv]_vars

(* ---------------- repeated confirmation ---------------- *)

\* lines 303-308: what a _finalize that reached Completed returns
CompletedResult == [kind |-> "ok", status |-> "completed"]

\* a confirm that begins while every canon file has room for the items of
\* two extractions
ConfirmAgain ==
  /\ ConfirmBegin(2 * MaxExtract)
  /\ previous' = IF op = "confirm" /\ result = CompletedResult
                   THEN [kind |-> "confirm", extracted |-> extracted,
                         canonBase |-> canonBase, final |-> final]
                   ELSE NoPrevious
  /\ atBegin' = [final |-> final, summary |-> summary]
  /\ UNCHANGED <<lruVars, readVars, budgetVars, selVars, chatVars, raceVars,
                 extractVars, reviewVars>>

\* a start_session called before any confirm has written
StartFirst ==
  /\ final = 0
  /\ StartSession

\* the work unit is written by start_session, then confirmed any number of
\* times, one operation at a time and with no other request in between
NextFinal ==
  \/ StartFirst
  \/ ArchivistInvoke
  \/ ArchivistReturn
  \/ WriterInvoke
  \/ WriterReturn
  \/ ReviewerInvoke
  \/ ReviewerReturn
  \/ PassNotified
  \/ RewriteNotified
  \/ MaxNotified
  \/ EditorInvoke
  \/ EditorReturn
  \/ StartReturn
  \/ ErrorReturn
  \/ ConfirmAgain
  \/ FinalizeSaveFinal
  \/ FinalizeGather
  \/ FinalizeSummarySaved
  \/ FinalizeExtracted
  \/ FinalizeSaveItem
  \/ FinalizeReturn

SpecFinal == Init /\ [][NextFinal]_vars

(* ---------------- two start_session calls on one Orchestrator ---------------- *)

\* everything but the Orchestrator's fields and the two calls
nonRaceVars ==
  <<callVars, storeVars, finVars, retVars, lastNote, histVars, lruVars,
    readVars, budgetVars, selVars, chatVars, confirmVars, extractVars,
    reviewVars>>

\* _notify, lines 68-78: the payload is built from the Orchestrator's fields
\* as they are when the call is made, then on_progress is awaited
Notified(c, chapter) ==
  [c EXCEPT !.note = chapter, !.foreign = @ \/ chapter /= c.chapter]

\* "rewrite_count" of the returned dict taken from the loop variable
rewrite_count_local(p) == calls[p].rewrite_i

\* line 193: "rewrite_count": self.rewrite_iteration
rewrite_count(p) == rewrite_iteration

\* _error, lines 311-319, up to its notification
RaceError(p) ==
  /\ status' = "ERROR"
  /\ calls' = [calls EXCEPT ![p] = [Notified(@, current_chapter) EXCEPT !.pc = "err_n"]]
  /\ UNCHANGED <<current_chapter, iteration, rewrite_iteration>>

\* lines 94-100: the session fields are assigned, then create_chapter is
\* awaited
RaceStart(p) ==
  /\ calls[p].pc = "idle"
  /\ \E ch \in {Chapter, OtherChapter} :
       /\ current_chapter' = ch
       /\ calls' = [calls EXCEPT ![p].pc = "create", ![p].chapter = ch]
  /\ iteration' = 0
  /\ rewrite_iteration' = 0
  /\ UNCHANGED status
  /\ UNCHANGED nonRaceVars

\* lines 103-111: status BRIEFING, its notification, then archivist.run is
\* awaited
RaceCreated(p) ==
  /\ calls[p].pc = "create"
  /\ \E r \in ArchivistOutcomes :
       IF r = "ok"
         THEN /\ status' = "BRIEFING"
              /\ calls' = [calls EXCEPT
                             ![p] = [Notified(@, current_chapter) EXCEPT !.pc = "brief"]]
              /\ UNCHANGED <<current_chapter, iteration, rewrite_iteration>>
         ELSE RaceError(p)
  /\ UNCHANGED nonRaceVars

\* lines 113-144: the brief is checked; the loop begins with rewrite_i = 0,
\* status WRITING, its notification, then writer.run is awaited
RaceBriefed(p) ==
  /\ calls[p].pc = "brief"
  /\ \E r \in AgentOutcomes :
       IF r = "ok"
         THEN /\ rewrite_iteration' = 0
              /\ status' = "WRITING"
              /\ calls' = [calls EXCEPT
                             ![p] = [Notified(@, current_chapter) EXCEPT
                                       !.pc = "write", !.rewrite_i = 0]]
              /\ UNCHANGED <<current_chapter, iteration>>
         ELSE RaceError(p)
  /\ UNCHANGED nonRaceVars

\* lines 146-153: the draft is checked; status REVIEWING, its notification,
\* then reviewer.run is awaited
RaceWritten(p) ==
  /\ calls[p].pc = "write"
  /\ \E r \in AgentOutcomes :
       IF r = "ok"
         THEN /\ status' = "REVIEWING"
              /\ calls' = [calls EXCEPT
                             ![p] = [Notified(@, current_chapter) EXCEPT !.pc = "review"]]
              /\ UNCHANGED <<current_chapter, iteration, rewrite_iteration>>
         ELSE RaceError(p)
  /\ UNCHANGED nonRaceVars

\* lines 155-174: a failed review leaves the loop; otherwise the score is
\* compared and one of the three notifications is awaited
RaceReviewed(p) ==
  /\ calls[p].pc = "review"
  /\ \/ /\ status' = "EDITING"
        /\ calls' = [calls EXCEPT
                       ![p] = [Notified(@, current_chapter) EXCEPT !.pc = "edit"]]
     \/ /\ \E score \in Scores :
             calls' = [calls EXCEPT
                         ![p] = [Notified(@, current_chapter) EXCEPT
                                   !.pc = IF ~QualityOk(score)
                                             /\ calls[p].rewrite_i < MAX_REWRITE_ITERATIONS
                                            THEN "again"
                                            ELSE "leave"]]
        /\ UNCHANGED status
  /\ UNCHANGED <<current_chapter, iteration, rewrite_iteration>>
  /\ UNCHANGED nonRaceVars

\* lines 130-144, rewrite_i > 0: the next pass of the loop assigns
\* self.rewrite_iteration, status WRITING, its notification, then writer.run
\* is awaited
RaceRewrite(p) ==
  /\ calls[p].pc = "again"
  /\ rewrite_iteration' = calls[p].rewrite_i + 1
  /\ status' = "WRITING"
  /\ calls' = [calls EXCEPT
                 ![p] = [Notified(@, current_chapter) EXCEPT
                           !.pc = "write", !.rewrite_i = @ + 1]]
  /\ UNCHANGED <<current_chapter, iteration>>
  /\ UNCHANGED nonRaceVars

\* lines 176-180: status EDITING, its notification, then editor.run is
\* awaited
RaceToEditing(p) ==
  /\ calls[p].pc = "leave"
  /\ status' = "EDITING"
  /\ calls' = [calls EXCEPT
                 ![p] = [Notified(@, current_chapter) EXCEPT !.pc = "edit"]]
  /\ UNCHANGED <<current_chapter, iteration, rewrite_iteration>>
  /\ UNCHANGED nonRaceVars

\* lines 182-184: status WAITING and its notification
RaceEdited(p) ==
  /\ calls[p].pc = "edit"
  /\ \E r \in ArchivistOutcomes :
       IF r = "ok"
         THEN /\ status' = "WAITING"
              /\ calls' = [calls EXCEPT
                             ![p] = [Notified(@, current_chapter) EXCEPT !.pc = "wait_n"]]
              /\ UNCHANGED <<current_chapter, iteration, rewrite_iteration>>
         ELSE RaceError(p)
  /\ UNCHANGED nonRaceVars

\* lines 186-195: the dict is built from the Orchestrator's fields and
\* returned
RaceReturn(p) ==
  /\ calls[p].pc = "wait_n"
  /\ calls' = [calls EXCEPT
                 ![p].pc = "done",
                 ![p].result = [kind |-> "ok", status |-> Value(status),
                                rewrite_count |-> rewrite_count(p)]]
  /\ UNCHANGED ctrlVars
  /\ UNCHANGED nonRaceVars

\* lines 315-319: _error returns its dict
RaceErrorReturn(p) ==
  /\ calls[p].pc = "err_n"
  /\ calls' = [calls EXCEPT
                 ![p].pc = "done",
                 ![p].result = [kind |-> "error", status |-> Value(status)]]
  /\ UNCHANGED ctrlVars
  /\ UNCHANGED nonRaceVars

\* the two calls, each resumed at any of its suspension points while the
\* other is suspended
NextRace ==
  \E p \in Callers :
     \/ RaceStart(p)
     \/ RaceCreated(p)
     \/ RaceBriefed(p)
     \/ RaceWritten(p)
     \/ RaceReviewed(p)
     \/ RaceRewrite(p)
     \/ RaceToEditing(p)
     \/ RaceEdited(p)
     \/ RaceReturn(p)
     \/ RaceErrorReturn(p)

SpecRace == Init /\ [][NextRace]_vars

(* ---------------- POST /extract ---------------- *)

nonExtractVars ==
  <<pipelineVars, lruVars, readVars, budgetVars, selVars, chatVars,
    confirmVars, raceVars, reviewVars>>

\* api/canon.py lines 357-382: the request for a chapter with content
\* reaches extract_facts, which is awaited
ExtractBegin ==
  /\ xpc = "idle"
  /\ \E chapter \in {Chapter, OtherChapter} :
       xreq' = [chapter |-> chapter, result |-> EmptyFiles, status |-> "running"]
  /\ xbefore' = canon_files
  /\ xprev' = IF xreq.status = "ok"
                THEN [kind |-> "extract", chapter |-> xreq.chapter,
                      result |-> xreq.result, files |-> canon_files]
                ELSE NoPrevious
  /\ xpc' = "extract"
  /\ UNCHANGED canon_files
  /\ UNCHANGED nonExtractVars

\* lines 382-396: extract_facts raises (HTTP 500), or returns; the entries
\* that name the chapter are removed from the three files, unless one of
\* the removals raises
ExtractReturns ==
  /\ xpc = "extract"
  /\ \/ /\ xreq' = [xreq EXCEPT !.status = "failed"]
        /\ xpc' = "idle"
        /\ UNCHANGED canon_files
     \/ \E texts \in Extractions :
          /\ \/ /\ canon_files' =
                     [kind \in Kinds |->
                        remove_by_source(canon_files[kind], kind, xreq.chapter)]
                /\ xreq' = [xreq EXCEPT !.result = Extracted(xreq.chapter, texts)]
                /\ xpc' = "add"
             \/ /\ \E done \in {{}, {"facts"}, {"facts", "timeline"}} :
                     canon_files' =
                       [kind \in Kinds |->
                          IF kind \in done
                            THEN remove_by_source(canon_files[kind], kind, xreq.chapter)
                            ELSE canon_files[kind]]
                /\ xreq' = [xreq EXCEPT !.status = "failed"]
                /\ xpc' = "idle"
  /\ UNCHANGED <<xbefore, xprev>>
  /\ UNCHANGED nonExtractVars

\* lines 398-423: the new items are appended to their files and the
\* response reports success
ExtractAdds ==
  /\ xpc = "add"
  /\ canon_files' = AppendAll(canon_files, xreq.result)
  /\ xreq' = [xreq EXCEPT !.status = "ok"]
  /\ xpc' = "idle"
  /\ UNCHANGED <<xbefore, xprev>>
  /\ UNCHANGED nonExtractVars

\* orchestrator.py lines 275-289: a confirm appends what it extracted from
\* a chapter, removing nothing
ConfirmAppends ==
  /\ xpc = "idle"
  /\ \E chapter \in {Chapter, OtherChapter}, texts \in Extractions :
       /\ \A kind \in Kinds : Len(canon_files[kind]) + Len(texts[kind]) <= MaxLines
       /\ texts /= [facts |-> << >>, timeline |-> << >>, states |-> << >>]
       /\ canon_files' = AppendAll(canon_files, Extracted(chapter, texts))
  /\ xreq' = NoRequest
  /\ UNCHANGED <<xpc, xbefore, xprev>>
  /\ UNCHANGED nonExtractVars

\* extract requests and confirms of one project, one at a time
NextExtract ==
  \/ ExtractBegin
  \/ ExtractReturns
  \/ ExtractAdds
  \/ ConfirmAppends

SpecExtract == Init /\ [][NextExtract]_vars

(* ---------------- the Reviewer's score ---------------- *)

\* conflicts and major programmatic issues one review can find
MaxConflicts == 5

MaxMajor == 6

\* reviewer.py lines 258-279: the score before the penalties, in
\* hundredths: the default 0.8 without a usable <score> tag, a value above
\* 1 read as a percentage, clamped to [0, 1]
ParsedScore(raw) ==
  IF raw = NoScoreTag THEN 80
  ELSE Max(0, Min(100, IF raw > 100 THEN raw \div 100 ELSE raw))

\* score texts, in hundredths: "0", "0.3", "0.5", "0.52", "0.55", "0.7",
\* "0.95", "1", "85", "150", and a response without the tag
ScoreTexts == {0, 30, 50, 52, 55, 70, 95, 100, 8500, 15000, NoScoreTag}

nonReviewVars ==
  <<pipelineVars, lruVars, readVars, budgetVars, selVars, chatVars,
    confirmVars, raceVars, extractVars>>

\* ReviewerAgent.run, lines 258-317: the response is scored; the method
\* keeps no state between calls, so a behaviour makes one call
ReviewerScores ==
  /\ reviewCall = NoCall
  /\ \E raw \in ScoreTexts, nconf \in 0..MaxConflicts, nmajor \in 0..MaxMajor :
       reviewCall' =
         [kind |-> "review", raw |-> raw, conflicts |-> nconf, major |-> nmajor,
          parsed |-> ParsedScore(raw),
          overall_score |-> ReviewScore(raw, nconf, nmajor)]
  /\ UNCHANGED nonReviewVars

NextReview == ReviewerScores

SpecReview == Init /\ [][NextReview]_vars

TypeOK ==
  /\ status \in SessionStatus \cup {RawIdle}
  /\ current_chapter \in {NoChapter, EmptyChapter, Chapter}
  /\ iteration \in 0..IterBound
  /\ rewrite_iteration \in 0..MAX_REWRITE_ITERATIONS
  /\ latest \in 0..MaxVersion
  /\ final \in 0..MaxVersion
  /\ canon \in [{"facts", "timeline", "states"} -> 0..MaxCanon]
  /\ saved_counts \in [{"facts", "timeline", "states"} -> 0..MaxExtract]

(* ---------------- properties ---------------- *)

InTrace(s) == \E i \in DOMAIN trace : trace[i] = s

\* every Reviewer call of the run in flight returned a review, all scores
\* on the side of the threshold given by ok
AllReviews(ok) ==
  /\ reviews /= <<>>
  /\ \A i \in DOMAIN reviews :
       /\ reviews[i] \in Scores
       /\ ((reviews[i] >= QUALITY_THRESHOLD) <=> ok)

WaitingResult == [kind |-> "ok", status |-> "waiting"]

ErrorResult == [kind |-> "error", status |-> "error"]

\* C1: rewrite_iteration never exceeds MAX_REWRITE_ITERATIONS, no run makes
\* more than MAX_REWRITE_ITERATIONS + 1 write passes, and once the pass with
\* rewrite_iteration = MAX_REWRITE_ITERATIONS has been reviewed the run is
\* past the loop (in the notification that ends it, or in Editing and
\* beyond) whatever the score was.
C1_RewriteBounded ==
  /\ rewrite_iteration <= MAX_REWRITE_ITERATIONS
  /\ writerCalls <= MAX_REWRITE_ITERATIONS + 1
  /\ (op = "start" /\ Len(reviews) = MAX_REWRITE_ITERATIONS + 1 /\ ~raised)
       => /\ rewrite_iteration = MAX_REWRITE_ITERATIONS
          /\ pc \in {"s_pass_n", "s_max_n"} \/ InTrace("EDITING")
          /\ pc \notin {"s_rewrite_n", "s_write_n", "s_writer", "s_review_n",
                        "s_reviewer"}

C1_Witness ==
  /\ op = "start"
  /\ reviews = <<30, 30, 30>>
  /\ rewrite_iteration = MAX_REWRITE_ITERATIONS
  /\ status = "EDITING"

\* C2: in a start_session run whose reviews all succeeded with a score at or
\* above the threshold, the Writer and the Reviewer were each called exactly
\* once, rewrite_iteration is 0 and the run is leaving the loop for Editing.
C2_PassOnFirstReview ==
  (op = "start" /\ AllReviews(TRUE))
    => /\ writerCalls = 1
       /\ reviewerCalls = 1
       /\ rewrite_iteration = 0
       /\ pc = "s_pass_n" \/ InTrace("EDITING")

C2_Witness ==
  /\ op = "start"
  /\ reviews = <<70>>
  /\ writerCalls = 1
  /\ status = "EDITING"
  /\ pc = "s_editor"

\* C3: a finished start_session run in which nothing raised, every draft was
\* written and reviewed, and every review scored below the threshold, made
\* exactly MAX_REWRITE_ITERATIONS + 1 Writer calls, one Editor call, never
\* took the Error status and returned success with status Waiting.
C3_ExhaustedLoopStillEdits ==
  /\ (op = "start" /\ AllReviews(FALSE) /\ ~raised /\ failedAgent \notin {"writer"})
       => /\ writerCalls <= MAX_REWRITE_ITERATIONS + 1
          /\ ~InTrace("ERROR")
  /\ (op = "start" /\ pc = "idle" /\ AllReviews(FALSE) /\ ~raised
        /\ failedAgent \notin {"writer"})
       => /\ writerCalls = MAX_REWRITE_ITERATIONS + 1
          /\ reviewerCalls = MAX_REWRITE_ITERATIONS + 1
          /\ editorCalls = 1
          /\ result = WaitingResult

C3_Witness ==
  /\ op = "start"
  /\ pc = "idle"
  /\ reviews = <<30, 30, 30>>
  /\ writerCalls = 3
  /\ editorCalls = 1
  /\ result = WaitingResult

\* C4: once a Reviewer call of a start_session run has returned
\* success=false, that review is the last one, no Writer or Reviewer call
\* follows it, the run takes Editing next and calls the Editor, and unless
\* something raises it never takes Error and returns success with status
\* Waiting.
C4_ReviewFailureNotFatal ==
  (op = "start" /\ review_result = "fail")
    => /\ reviews[Len(reviews)] = ReviewFailed
       /\ writerCalls = Len(reviews)
       /\ reviewerCalls = Len(reviews)
       /\ InTrace("EDITING")
       /\ pc \in {"s_edit_n", "s_editor", "s_wait_n", "err_n", "idle"}
       /\ pc \in {"s_editor", "s_wait_n", "err_n", "idle"} => editorCalls = 1
       /\ ~raised => ~InTrace("ERROR")
       /\ (pc = "idle" /\ ~raised) => result = WaitingResult

C4_Witness ==
  /\ op = "start"
  /\ review_result = "fail"
  /\ reviews = <<30, ReviewFailed>>
  /\ pc = "idle"
  /\ editorCalls = 1
  /\ result = WaitingResult

\* C5: once the Archivist or the Writer has returned success=false in a
\* start_session run, the status is Error until the run returns, the run
\* returns {success: false, status: error}, and no Reviewer call follows
\* the failed call, no further Writer call, and no Editor call at all.
C5_BriefOrDraftFailureFatal ==
  (op = "start" /\ failedAgent \in {"archivist", "writer"})
    => /\ pc \in {"err_n", "idle"}
       /\ pc = "err_n" => status = "ERROR"
       /\ pc = "idle" => result = ErrorResult
       /\ trace[Len(trace)] = "ERROR"
       /\ editorCalls = 0
       /\ reviewerCalls = Len(reviews)
       /\ failedAgent = "archivist" => writerCalls = 0 /\ reviewerCalls = 0
       /\ failedAgent = "writer" => reviewerCalls = writerCalls - 1

C5_Witness ==
  /\ op = "start"
  /\ failedAgent = "writer"
  /\ writerCalls = 2
  /\ pc = "idle"
  /\ result = ErrorResult

\* C6 (as claimed): after an Editor call has returned success=false, in
\* start_session as in submit_feedback, the operation is on its error path:
\* status Error, result success=false, never Waiting with a success result.
C6_EditorFailureFatal ==
  (op \in {"start", "revise"} /\ failedAgent = "editor")
    => /\ pc \in {"err_n", "idle"}
       /\ pc = "err_n" => status = "ERROR"
       /\ pc = "idle" => result = ErrorResult

\* the order of the statuses of one run: Briefing, (Writing, Reviewing) one
\* to MAX_REWRITE_ITERATIONS + 1 times, Editing, Waiting
Follows(a, b) ==
  \/ a = "BRIEFING" /\ b = "WRITING"
  \/ a = "WRITING" /\ b = "REVIEWING"
  \/ a = "REVIEWING" /\ b \in {"WRITING", "EDITING"}
  \/ a = "EDITING" /\ b = "WAITING"

WellOrdered(t) ==
  /\ t /= <<>> => t[1] = "BRIEFING"
  /\ \A i \in 1..(Len(t) - 1) :
       \/ t[i + 1] = "ERROR"
       \/ t[i] /= "ERROR" /\ Follows(t[i], t[i + 1])
  /\ Cardinality({i \in DOMAIN t : t[i] = "WRITING"}) <= MAX_REWRITE_ITERATIONS + 1

C8_FeedbackOnlyFromWaiting ==
  [][ /\ (status' = "COMPLETED" /\ status /= "COMPLETED") => status = "WAITING"
      /\ (op' = "revise" /\ status' = "EDITING" /\ status /= "EDITING")
           => status = "WAITING"
      /\ (op' \in {"revise", "confirm"} /\ status' /= RawIdle
            /\ StrOf(entryStatus') \in {"idle", "error", "completed"})
           => status' = entryStatus'
    ]_vars

\* C9 (as claimed): whenever the status changes, the status it changes from
\* was carried by the latest progress notification (the Idle the Controller
\* starts in, which no operation set, excepted): no change goes unannounced
\* until the next.
C9_EveryChangeNotified ==
  [][ StrOf(status') /= StrOf(status)
        => \/ lastNote = StrOf(status)
           \/ StrOf(status) = "idle" /\ lastNote = "none"
    ]_vars

\* C10 (as claimed): the revision counter never exceeds max_iterations.
C10_RevisionCounterCapped == iteration <= max_iterations

\* C11 (as claimed): a revise is rejected only when the incremented counter
\* is strictly greater than max_iterations, so each of the first
\* max_iterations revise requests after a start_session reaches the Editor;
\* a rejection leaves the status alone and calls no agent.
C11_RejectOnlyOverCap ==
  (op = "revise" /\ pc = "idle" /\ result.kind = "rejected")
    => /\ iteration > max_iterations
       /\ status = entryStatus
       /\ editorCalls = 0

\* C12: a confirm that finds a stored draft reads the highest version and
\* saves exactly that as the final text, and unless something raises it
\* returns success with status Completed; a confirm that finds no stored
\* draft takes status Error, returns {success: false, status: error} and
\* none of its steps writes a final text, a summary or a canon entry.
C12_ConfirmPersistsLatest ==
  [][ /\ (op' = "confirm" /\ pc = "idle" /\ pc' /= "idle")
           => IF current_chapter' = Chapter /\ latest > 0
                THEN draft_read' = latest /\ pc' = "f_read"
                ELSE /\ draft_read' = 0
                     /\ status' = "ERROR"
                     /\ pc' = "err_n"
                     /\ UNCHANGED storeVars
      /\ (op = "confirm" /\ pc = "f_read" /\ pc' /= pc /\ ~raised')
           => final' = draft_read /\ final' > 0
      /\ (op = "confirm" /\ pc /= "idle" /\ pc' = "idle" /\ ~raised')
           => IF draft_read > 0
                THEN status' = "COMPLETED" /\ result' = CompletedResult
                ELSE /\ status' = "ERROR"
                     /\ result' = ErrorResult
                     /\ UNCHANGED storeVars
    ]_vars

C12_Witness ==
  /\ op = "confirm"
  /\ pc = "idle"
  /\ result = CompletedResult
  /\ latest >= 2
  /\ final = latest
  /\ draft_read = latest

\* C13: throughout a _finalize call the canon store holds, of each kind,
\* what it held when the call began plus the items the call has counted as
\* saved, never more than were extracted; once the call has reached
\* Completed every extracted fact, timeline event and character state has
\* been appended exactly once and the returned counts are the extracted ones.
C13_CanonCountsExact ==
  op = "confirm"
    => /\ \A k \in DOMAIN canon :
            /\ canon[k] = canonBase[k] + saved_counts[k]
            /\ saved_counts[k] <= extracted[k]
       /\ (pc = "f_done_n" \/ (pc = "idle" /\ result = CompletedResult))
            => /\ saved_counts = extracted
               /\ \A k \in DOMAIN canon : canon[k] = canonBase[k] + extracted[k]

C13_Witness ==
  /\ op = "confirm"
  /\ pc = "idle"
  /\ result = CompletedResult
  /\ extracted = [facts |-> 1, timeline |-> 0, states |-> 1]
  /\ saved_counts = extracted
  /\ canon = extracted

\* C14 (as claimed): when a cancel has run while start_session is suspended
\* in an agent call, the step that follows the agent's return leaves the
\* status at the cancelled value and ends the call instead of going on to
\* the next stage of the pipeline.
C14_CancelDiscardsResult ==
  [][ (op = "start" /\ pc \in AgentCallPcs /\ status = RawIdle /\ pc' /= pc)
        => /\ status' = RawIdle
           /\ pc' = "idle"
    ]_vars

\* C15 (as claimed): no operation of the Controller ends by an exception,
\* an operation that ends with status Error has returned a structured
\* {success: false, error} value, and whenever the status is Error the
\* latest notification carried that status.
C15_NoSilentFailure ==
  /\ (pc = "idle" /\ op /= "none") => result.kind /= "raised"
  /\ (pc = "idle" /\ op /= "none" /\ status = "ERROR")
       => result.kind \in {"error", "rejected"}
  /\ status = "ERROR" => lastNote = "error"

\* C16: a start_session run that has returned, in which the Archivist, every
\* Writer and Reviewer call and the Editor succeeded, returned success with
\* status Waiting, a brief, a draft version of at least 1, a quality_score
\* that is the overall_score of the last review and lies in [0, 1]
\* (0..100 hundredths), and a rewrite_count of the Writer passes minus one.
C16_SuccessfulRunResult ==
  (op = "start" /\ pc = "idle" /\ ~raised /\ failedAgent = "none"
     /\ review_result = "ok" /\ edit_result = "ok")
    => /\ result = WaitingResult
       /\ returned.brief
       /\ returned.version >= 1
       /\ returned.quality_score = reviews[Len(reviews)]
       /\ returned.quality_score >= 0
       /\ returned.quality_score <= 100
       /\ returned.rewrite_count = writerCalls - 1

C16_Witness ==
  /\ op = "start"
  /\ pc = "idle"
  /\ result = WaitingResult
  /\ reviews = <<30, 90>>
  /\ writerCalls = 2
  /\ returned = [brief |-> TRUE, version |-> 3, quality_score |-> 90,
                 rewrite_count |-> 1]

\* C17: a get of a key whose entry set stored at time t with time-to-live
\* ttl returns the stored value and leaves the entry as set wrote it when
\* the clock is at most t + ttl, and returns None and removes the entry
\* when the clock is past t + ttl, whatever gets came in between.
C17_TtlExpiry ==
  [][ (lastOp'.op = "get" /\ lastOp'.key \in DOMAIN stored)
        => IF now <= stored[lastOp'.key].timestamp + stored[lastOp'.key].ttl
             THEN /\ lastOp'.ret = stored[lastOp'.key].value
                  /\ lastOp'.key \in DOMAIN cache'
                  /\ cache'[lastOp'.key] = stored[lastOp'.key]
             ELSE /\ lastOp'.ret = None
                  /\ lastOp'.key \notin DOMAIN cache'
    ]_vars

C17_Witness ==
  /\ lastOp = [op |-> "get", key |-> <<"f", ":", "1">>, ret |-> 1]
  /\ <<"f", ":", "1">> \in DOMAIN stored
  /\ stored[<<"f", ":", "1">>].ttl = 2
  /\ now = stored[<<"f", ":", "1">>].timestamp + 2

\* C18: a set of a key that is not stored, on a cache that holds maxsize
\* entries (expired or not), removes exactly one entry, the one least
\* recently read by a successful get or written by a set, and stores the
\* key; on a cache with room it removes nothing; a set of a stored key
\* leaves the set of stored keys as it is.
C18_LruEviction ==
  [][ lastOp'.op = "set"
        => IF lastOp'.key \in DOMAIN cache
             THEN DOMAIN cache' = DOMAIN cache
             ELSE IF Cardinality(DOMAIN cache) = maxsize
                    THEN DOMAIN cache' =
                           (DOMAIN cache \ {Head(useOrder)}) \cup {lastOp'.key}
                    ELSE DOMAIN cache' = DOMAIN cache \cup {lastOp'.key}
    ]_vars

C18_Witness ==
  /\ lastOp = [op |-> "set", key |-> <<"d", ":", "1">>, ret |-> None]
  /\ DOMAIN cache = {<<"f", ":", "1">>, <<"d", ":", "1">>}
  /\ access_order = <<<<"f", ":", "1">>, <<"d", ":", "1">>>>
  /\ cache[<<"f", ":", "1">>].timestamp = 0
  /\ cache[<<"d", ":", "1">>].timestamp = 2
  /\ now = 2

\* C19 (as claimed): a read through cached returns a version that is not
\* older than the last write through invalidate_cache that had returned
\* when the read began.
C19_NoStaleRead ==
  (rpc = "idle" /\ rret /= None) => rret >= rmin

\* C20 (as claimed): of two reads of the same item with no write in between
\* and no more than the category's time-to-live apart, only the first
\* reaches the persistence layer.
C20_ReadsThroughCache ==
  Len(readTimes) = 2 => readTimes[2] - readTimes[1] > FactTtl

(* ---------------- token budget ---------------- *)

\* the estimated tokens of a list of admitted items
RECURSIVE TokenSum(_)
TokenSum(items) ==
  IF items = << >> THEN 0
  ELSE estimate_tokens(Head(items).text) + TokenSum(Tail(items))

\* floor(total_tokens * fraction) of a budget group
Floor(config, group) ==
  (config.total_tokens * config.ratios[group]) \div 100

\* C21: whatever the BudgetConfig, the candidate context and the priority
\* list, the estimated tokens of the items allocate_context admits stay within
\* the group's budget floor(total_tokens * fraction): characters plus world
\* within the cards budget, facts within the canon budget, summaries within
\* the summaries budget.
C21_AdmittedWithinBudget ==
  budgetCall.kind = "allocate" =>
    LET a == budgetCall.allocated
        config == budgetCall.config
    IN /\ TokenSum(a.characters) + TokenSum(a.world) <= Floor(config, "cards")
       /\ TokenSum(a.facts) <= Floor(config, "canon")
       /\ TokenSum(a.summaries) <= Floor(config, "summaries")

\* characters and world are both admitted in part, each losing a candidate to
\* the shared cards budget
C21_Witness ==
  /\ budgetCall.kind = "allocate"
  /\ budgetCall.allocated.characters # << >>
  /\ budgetCall.allocated.world # << >>
  /\ Len(budgetCall.allocated.world) < Len(budgetCall.context.world)
  /\ Len(budgetCall.allocated.facts) < Len(budgetCall.context.facts)


\* the last Len(suffix) runs of text are suffix
EndsWith(text, suffix) ==
  /\ Len(text) >= Len(suffix)
  /\ SubSeq(text, Len(text) - Len(suffix) + 1, Len(text)) = suffix

\* C22: for every text and category the estimated token count of
\* truncate_to_budget(text, category) is at most get_budget(category); a text
\* that already fits is returned unchanged, and a shortened result ends with
\* the truncation marker.
C22_TruncatedFitsBudget ==
  budgetCall.kind = "truncate" =>
    LET budget == get_budget(budgetCall.config, budgetCall.category)
        fits == estimate_tokens(budgetCall.text) <= budget
    IN /\ estimate_tokens(budgetCall.out) <= budget
       /\ fits => budgetCall.out = budgetCall.text
       /\ ~fits => EndsWith(budgetCall.out, TruncationMarker)

(* ---------------- relevance ranking ---------------- *)

\* C23: with an empty query, or with a query none of whose tokens survive
\* tokenization, rank_by_similarity returns the first top_k documents in
\* their original order, each with score 0.
C23_NoQueryKeepsOrder ==
  (/\ selCall.kind = "rank"
   /\ tokenize(selCall.query) = << >>) =>
    LET docs == selCall.documents
        k == Min(selCall.top_k, Len(docs))
    IN /\ Len(selCall.out) = k
       /\ \A i \in 1..k :
            /\ selCall.out[i].item = docs[i].item
            /\ selCall.out[i].text = docs[i].text
            /\ selCall.out[i].score.n = 0

\* a query of stop words only, over three documents of which the last has
\* tokens of its own, cut to two
C23_Witness ==
  /\ selCall.kind = "rank"
  /\ selCall.query = StopText
  /\ Len(selCall.documents) = 3
  /\ tokenize(selCall.documents[3].text) # << >>
  /\ selCall.top_k = 2
  /\ ItemsOf(selCall.out) = <<1, 2>>

\* C24: for a non-empty query rank_by_similarity returns at most top_k
\* entries in non-increasing score order, documents of equal score keep their
\* original relative order, and the entries returned are the top_k
\* highest-scoring documents of the input.
C24_TopKByScore ==
  (/\ selCall.kind = "rank"
   /\ selCall.query # << >>) =>
    LET docs == selCall.documents
        out == selCall.out
        score(d) == cosine_similarity(tokenize(selCall.query), d)
        kept == {out[i].item : i \in 1..Len(out)}
    IN /\ Len(out) = Min(selCall.top_k, Len(docs))
       /\ \A i \in 1..Len(out) :
            /\ out[i].item \in 1..Len(docs)
            /\ out[i].score = score(docs[out[i].item])
       /\ \A i, j \in 1..Len(out) :
            i < j =>
              /\ ~FracLess(out[i].score, out[j].score)
              /\ FracEq(out[i].score, out[j].score) => out[i].item < out[j].item
       /\ \A d \in 1..Len(docs) :
            d \notin kept =>
              \A i \in 1..Len(out) : ~FracLess(out[i].score, score(docs[d]))

\* three documents of which the last two tie above the first, cut to two
C24_Witness ==
  /\ selCall.kind = "rank"
  /\ selCall.query = GoalText
  /\ Len(selCall.documents) = 3
  /\ selCall.top_k = 2
  /\ ItemsOf(selCall.out) = <<2, 3>>
  /\ selCall.out[1].score = selCall.out[2].score
  /\ selCall.out[1].score.n > 0

(* ---------------- context selection ---------------- *)

\* C25: every explicitly requested participant whose character card exists
\* is among the characters of the bundle select_for_writing returns, whatever
\* the goal, the relevance scores, the number of requested participants and
\* the budget.
C25_RequestedParticipantsKept ==
  selCall.kind = "select" =>
    \A i \in 1..Len(selCall.characters) :
      \A c \in 1..Len(selCall.project.characters) :
        selCall.project.characters[c].name = selCall.characters[i] =>
          Contains(selCall.bundle.characters, selCall.project.characters[c])

\* C26: whenever the project has a world descriptor, the bundle
\* select_for_writing returns has a non-empty world list.
C26_WorldNeverEmpty ==
  selCall.kind = "select" =>
    (selCall.project.world # << >> => selCall.bundle.world # << >>)

\* the relevance of a candidate summary to the goal of the call
Relevance(cand) ==
  cosine_similarity(tokenize(selCall.chapter_goal),
                    Doc(cand, cand.words, cand.cos))

\* the candidates from chapters after the chapter of cand
MoreRecent(cand) ==
  Cardinality({j \in 1..Len(selCall.all_summaries) :
                 selCall.all_summaries[j].chapter > cand.chapter})

\* C27: in summary selection the recency weight is 1 / (1 + p * 0.2), p being
\* the position of the summary counted from the most recent prior chapter
\* (p = 0 and weight 1 for the most recent): of two ranked summaries of equal
\* relevance the one from the more recent chapter has the higher blended
\* score.
C27_RecentWeighsMore ==
  selCall.kind = "select" =>
    LET ranked == selCall.ranked_summaries
    IN /\ \A i \in 1..Len(ranked) :
            FracEq(ranked[i].score,
                   Blend(Relevance(ranked[i].item), MoreRecent(ranked[i].item)))
       /\ \A i, j \in 1..Len(ranked) :
            (/\ FracEq(Relevance(ranked[i].item), Relevance(ranked[j].item))
             /\ ranked[i].item.chapter > ranked[j].item.chapter) =>
              FracLess(ranked[j].score, ranked[i].score)

\* the blended score of a candidate summary: 70% relevance, 30% the weight
\* of its place among the candidates
Blended(cand) ==
  Blend(Relevance(cand), orig_idx(selCall.all_summaries, cand.chapter))

\* C28: with a non-empty goal the summaries select_for_writing chooses,
\* before the budget is applied, are the 5 of highest blended score among
\* all candidate prior summaries: no candidate left out has a blended score
\* higher than one that is kept.
C28_BestBlendedKept ==
  (selCall.kind = "select" /\ selCall.chapter_goal # << >>) =>
    LET kept == selCall.selected.summaries
        all == selCall.all_summaries
    IN /\ Len(kept) = Min(5, Len(all))
       /\ \A i \in 1..Len(all) :
            ~Contains(kept, all[i]) =>
              \A k \in 1..Len(kept) :
                ~FracLess(Blended(kept[k]), Blended(all[i]))

(* ---------------- LLM client retry ---------------- *)

\* the waits of a chat call that has failed k times with more attempts left
Waits(k) == SubSeq(<<1, 2, 4, 8, 16, 32>>, 1, k)

\* a chat call is under way
ChatBusy == cpc \in {"call", "sleep"}

\* the chat call that entered the retry loop has returned or raised
ChatOver == cpc = "idle" /\ chats > 0 /\ providers # {}

C29_Bounded ==
  /\ providerCalls <= retry
  /\ cpc = "call" =>
       /\ failures = providerCalls
       /\ sleeps = Waits(providerCalls)
  /\ cpc = "sleep" =>
       /\ failures = providerCalls
       /\ providerCalls < retry
       /\ sleeps = Waits(providerCalls)
  /\ (ChatOver /\ chatResult.kind = "result") =>
       /\ failures = providerCalls - 1
       /\ chatResult.attempt = failures
       /\ sleeps = Waits(failures)
  /\ (ChatOver /\ chatResult.kind = "LLMError") =>
       /\ providerCalls = retry
       /\ failures = retry
       /\ sleeps = Waits(Max(retry - 1, 0))

\* C29: LLMClient.chat calls the provider at most retry times; it returns
\* the first successful result without a further attempt, waits 2^attempt
\* seconds (1, then 2) between attempts only and not after the last, raises
\* LLMError once every attempt has failed, and always terminates.
C29_ChatRetriesAndEnds == []C29_Bounded /\ (ChatBusy ~> ~ChatBusy)

\* a call with retry 3 has failed three times, slept 1 and 2 seconds, and
\* raised LLMError
C29_Witness ==
  /\ ChatOver
  /\ retry = 3
  /\ chatResult.kind = "LLMError"
  /\ providerCalls = 3
  /\ sleeps = <<1, 2>>

(* ---------------- the fan-out of _finalize ---------------- *)

\* C30: in the concurrent fan-out of _finalize neither branch writes to
\* persistence before the join: while the gather is in flight no summary is
\* written and no fact, timeline event or character state is added.
C30_NoWriteBeforeJoin ==
  [][(pc = "f_gather" /\ pc' \in {"f_gather", "f_join"}) =>
       /\ summary' => summary
       /\ \A k \in DOMAIN canon : canon'[k] <= canon[k]]_vars

\* the confirm that has just returned completed, and the confirm before it
\* completed as well
ConfirmedTwice ==
  /\ op = "confirm"
  /\ pc = "idle"
  /\ result = CompletedResult
  /\ previous /= NoPrevious

\* C31: when submit_feedback(action=confirm) has completed twice in a row
\* for the work unit, the canon store holds, of every kind for which both
\* extractions returned the same number n of items, 2n items more than it
\* held before the first call (nothing is replaced or merged), while the
\* final text is the one value the second call wrote: the draft it read.
C31_ConfirmTwiceDoubles ==
  ConfirmedTwice
    => /\ \A k \in DOMAIN canon :
            previous.extracted[k] = extracted[k]
              => canon[k] = previous.canonBase[k] + 2 * extracted[k]
       /\ final = draft_read
       /\ final = latest

C31_Witness ==
  /\ ConfirmedTwice
  /\ previous.canonBase = ZeroCounts
  /\ previous.extracted = extracted
  /\ extracted.facts = MaxExtract
  /\ canon.facts = 2 * MaxExtract
  /\ final = previous.final
  /\ final > 0

\* C32: each of two interleaved start_session calls reports the
\* Orchestrator's fields as they are at that moment, whichever call assigned
\* them last: the rewrite_count it returns is self.rewrite_iteration, and
\* every notification it sends carries self.current_chapter.  Neither is
\* the call's own loop variable or chapter argument.
C32_CallsShareSessionFields ==
  [][ \A p \in Callers :
        /\ (calls[p].pc = "wait_n" /\ calls'[p].pc = "done")
             => calls'[p].result.rewrite_count = rewrite_iteration
        /\ (calls'[p] /= calls[p] /\ calls'[p].pc \notin {"create", "done"})
             => /\ calls'[p].note = current_chapter
                /\ calls'[p].foreign = (calls[p].foreign
                                          \/ current_chapter /= calls[p].chapter)
    ]_vars

\* a call has returned success with a rewrite_count that is not the number
\* of rewrites it made, after a notification that carried the other call's
\* chapter
C32_Witness ==
  \E p \in Callers :
     /\ calls[p].pc = "done"
     /\ calls[p].result.kind = "ok"
     /\ calls[p].result.rewrite_count /= calls[p].rewrite_i
     /\ calls[p].foreign
     /\ \A q \in Callers \ {p} : calls[q].chapter = OtherChapter /\ calls[p].chapter = Chapter

\* the first Len(taken) candidates, in their order
IsPrefix(taken, candidates) ==
  /\ Len(taken) <= Len(candidates)
  /\ \A i \in 1..Len(taken) : taken[i] = candidates[i]

\* C33 (as claimed): for every priority list, what allocate_context admits
\* in a category is a prefix of the category's candidates in their order,
\* with no candidate admitted twice.
C33_AdmittedIsPrefix ==
  budgetCall.kind = "allocate" =>
    \A category \in {"characters", "world", "facts", "summaries"} :
       LET taken == budgetCall.allocated[category]
       IN /\ IsPrefix(taken, budgetCall.context[category])
          /\ \A i, j \in 1..Len(taken) : taken[i].name = taken[j].name => i = j

\* C34: in a start_session call the first Writer call is given no
\* review_feedback, and the Writer call of every later iteration k (the
\* k+1-th call) is given the summary of the k-th review of the same call,
\* the one produced in iteration k - 1, which is a review that succeeded.
C34_WriterGetsPreviousReview ==
  (op = "start" /\ writerCalls >= 1)
    => /\ pc = "s_writer" => rewrite_i = writerCalls - 1
       /\ IF writerCalls = 1
            THEN review_feedback = NoFeedback
            ELSE /\ review_feedback = writerCalls - 1
                 /\ review_feedback \in 1..Len(reviews)
                 /\ reviews[review_feedback] /= ReviewFailed
                 /\ ~QualityOk(reviews[review_feedback])

\* the third Writer call of a session that follows an earlier session
C34_Witness ==
  /\ op = "start"
  /\ pc = "s_writer"
  /\ writerCalls = 3
  /\ review_feedback = 2
  /\ Len(reviews) = 2
  /\ latest > 2

\* the entries of a file that name the chapter, in their order
FromChapter(lines, kind, chapter) ==
  LET Names(e) == e[SourceKey(kind)] = chapter
  IN SelectSeq(lines, Names)

\* the entries of a file that name another chapter, in their order
FromOthers(lines, kind, chapter) ==
  LET Other(e) == e[SourceKey(kind)] /= chapter
  IN SelectSeq(lines, Other)

C36_PenaltiesOnlyLower ==
  reviewCall.kind = "review"
    => reviewCall.overall_score <= reviewCall.parsed

\* C37 (as claimed): whatever start_session, submit_feedback and cancel
\* operations have run, the Controller's status is a member of
\* SessionStatus, so that its .value can be read by get_status and _notify.
C37_StatusIsMember ==
  status \in SessionStatus

\* C38 (as claimed): when a confirm has returned success=false with status
\* Error, the final text, the summary and the canon store are what they
\* were when the call began: nothing the call wrote remains.
C38_FailedConfirmWritesNothing ==
  (op = "confirm" /\ pc = "idle" /\ result = ErrorResult)
    => /\ final = atBegin.final
       /\ summary = atBegin.summary
       /\ canon = canonBase

\* C39: after any sequence of get, set, delete, invalidate_prefix and clear
\* the LRUCache stores at most maxsize entries, and _access_order holds every
\* stored key exactly once and no other key.
C39_CacheWellFormed ==
  /\ Cardinality(DOMAIN cache) <= maxsize
  /\ \A k \in DOMAIN cache :
       Cardinality({i \in DOMAIN access_order : access_order[i] = k}) = 1
  /\ \A i \in DOMAIN access_order : access_order[i] \in DOMAIN cache

\* a full cache whose most recent key was set at the last clock value,
\* beside an entry set at clock 0
C39_Witness ==
  /\ lastOp.op = "set"
  /\ Cardinality(DOMAIN cache) = maxsize
  /\ Len(access_order) = maxsize
  /\ access_order[maxsize] = lastOp.key
  /\ cache[lastOp.key].timestamp = MaxTime
  /\ \E k \in DOMAIN cache : cache[k].timestamp = 0

\* C40 (as claimed): invalidate_category(category, project) leaves every
\* entry stored under another project identifier or another category in
\* the cache, also when the other project's identifier begins with the
\* given one.
C40_InvalidatesOnlyItsProject ==
  [][ \A category \in KeyCategories, project \in KeyProjects :
        (lastOp'.op = "invalidate_prefix"
           /\ lastOp'.key = make_key(category, project))
          => \A c \in KeyCategories, p \in KeyProjects :
               (<<c, p>> /= <<category, project>>
                  /\ make_key(c, p) \in DOMAIN cache)
                 => make_key(c, p) \in DOMAIN cache'
    ]_vars

====
